---- MODULE Spec2Model ----
(***************************************************************************)
(* A model of the tick ingestion pipeline of friesdan/tickler:             *)
(*   - the candle aggregator and pattern detector (services/candleDetector)*)
(*   - the stock store's processTick / setSymbol (stores/stockStore)       *)
(*   - one market-data provider instance of each transport, driven the way *)
(*     the stock store drives it (connect, changeSymbol*, disconnect) and  *)
(*     by its environment (network responses, socket events, timers).      *)
(* Prices are integers (cents); every comparison the code makes on ratios  *)
(* is cross-multiplied so that it is exact on integers.                    *)
(***************************************************************************)
EXTENDS Integers, Sequences, FiniteSets, Bags, TLC

VARIABLES
    \* ---- pure-function harness: aggregateCandles(history, k) ----
    aHistory, aK, aResult,
    \* ---- pure-function harness: detectPatterns(history) ----
    dShapes, dResult,
    \* ---- stock store (stores/stockStore) ----
    feed,                    \* environment: how the tick prices are drawn
    history, totalTicks, candles, lastPattern, lastPatternCandleCount,
    price, previousPrice, open, high, low, change,
    arrived,                 \* history variable: every tick price since the reset
    detectRuns,              \* history variable: calls of detectPatterns since the reset
    lastDetected,            \* history variable: what the latest boundary tick did
    wiped,                   \* history variable: what the latest reset found
    \* ---- one market-data provider instance and its environment ----
    kind,                    \* which transport the instance is
    phase,                   \* the store's use of it: "new", "live", "stopped"
    calls,                   \* changeSymbol calls made so far
    this,                    \* the instance's fields
    status,                  \* the last status given to onStatusChange
    socks,                   \* bag: the WebSockets the instance created
    tasks,                   \* bag: the awaits in flight (fetch, res.json)
    timers,                  \* bag: the pending setTimeout / setInterval timers
    step,                    \* history variable: what the latest step did
                             \*   (missing: it processed a poll response
                             \*   that lacks the price field)
    drops,                   \* history variable: unintentional closes since the
                             \*   last successful connection
    errSeen,                 \* history variable: error was reported and neither
                             \*   connect() nor disconnect() was called since
    rateLimited,             \* history variable: the latest poll response that
                             \*   was processed was a rate-limit response
    authenticated,           \* history variable: an auth-status check has
                             \*   reported the session authenticated
    \* ---- the stock store's provider orchestration and the settings ----
    settings,                \* useSettingsStore: dataProvider and the credentials
    symbol,                  \* useStockStore.symbol
    provider,                \* useStockStore.provider: an index of instances, 0 for null
    instances,               \* every provider instance created so far
    \* ---- ticker search (services/tickerSearch) ----
    cache,                   \* the module's cache: normalized query -> [results, ts]
    clock,                   \* Date.now()
    searches,                \* the searchTickers calls waiting on Promise.allSettled
    nSearches,               \* history variable: searchTickers calls made so far
    searched,                \* history variable: what the latest search step did
    \* ---- the settings store's indicator periods and presets ----
    periods,                 \* useSettingsStore.periods, each number in halves
    customPresets,           \* useSettingsStore.customPresets: [name, periods]
    nPeriodCalls,            \* history variable: calls made so far
    periodCall,              \* history variable: the latest call and its arguments
    \* ---- pure-function harness: computeRSI(history, period) ----
    rHistory, rPeriod, rResult,
    \* ---- the indicators processTick publishes (fixed-point numbers) ----
    macd,                    \* computeMACD's result; the store keeps its
                             \*   histogram as macdHistogram
    macroTrend               \* useStockStore.macroTrend

varsAgg    == <<aHistory, aK, aResult>>
varsDetect == <<dShapes, dResult>>
varsStore  == <<feed, history, totalTicks, candles, lastPattern,
                lastPatternCandleCount, price, previousPrice, open, high, low,
                change, arrived, detectRuns, lastDetected, wiped>>
varsProv   == <<kind, phase, calls, this, status, socks, tasks, timers, step,
                drops, errSeen, rateLimited, authenticated>>
varsOrch   == <<settings, symbol, provider, instances>>
varsSearch == <<cache, clock, searches, nSearches, searched>>
varsPeriods == <<periods, customPresets, nPeriodCalls, periodCall>>
varsRsi    == <<rHistory, rPeriod, rResult>>
varsInd    == <<macd, macroTrend>>
vars       == <<varsAgg, varsDetect, varsStore, varsProv, varsOrch, varsSearch,
                varsPeriods, varsRsi, varsInd>>

\* What the steps of one part leave unchanged: the other parts.
exceptAgg    == <<varsDetect, varsStore, varsProv, varsOrch, varsSearch,
                 varsPeriods, varsRsi, varsInd>>
exceptDetect == <<varsAgg, varsStore, varsProv, varsOrch, varsSearch,
                 varsPeriods, varsRsi, varsInd>>
exceptStore  == <<varsAgg, varsDetect, varsProv, varsOrch, varsSearch,
                 varsPeriods, varsRsi, varsInd>>
exceptProv   == <<varsAgg, varsDetect, varsStore, varsOrch, varsSearch,
                 varsPeriods, varsRsi, varsInd>>
exceptOrch   == <<varsAgg, varsDetect, varsStore, varsProv, varsSearch,
                 varsPeriods, varsRsi, varsInd>>
exceptSearch == <<varsAgg, varsDetect, varsStore, varsProv, varsOrch,
                 varsPeriods, varsRsi, varsInd>>
\* resetDefaults also writes settings.dataProvider
exceptPeriods == <<varsAgg, varsDetect, varsStore, varsProv, varsSearch,
                   symbol, provider, instances, varsRsi, varsInd>>
exceptRsi    == <<varsAgg, varsDetect, varsStore, varsProv, varsOrch, varsSearch,
                 varsPeriods, varsInd>>

(***************************************************************************)
(* Program constants                                                       *)
(***************************************************************************)
HISTORY_SIZE     == 1000
TICKS_PER_CANDLE == 50
\* JavaScript's Infinity (INITIAL_STATE.low, aggregateCandles' running low):
\* a number above every price of the model.
Infinity         == 1000000

(***************************************************************************)
(* Bounds of the model                                                     *)
(***************************************************************************)
MaxAggLen     == 7      \* longest history given to aggregateCandles
MaxAggK       == 3      \* largest ticksPerCandle given to aggregateCandles
MaxShapes     == 3      \* most candles in a history given to detectPatterns
MaxFreeTicks  == 200    \* ticks of a store run whose prices are free
MaxLongTicks  == 1060   \* ticks of a store run on the deterministic ramp

AggPrices   == {1, 2, 3}
ShapePrices == {1, 3, 4}
FreePrices  == {1, 2}

Max(a, b) == IF a >= b THEN a ELSE b
Min(a, b) == IF a <= b THEN a ELSE b
Abs(a)    == IF a >= 0 THEN a ELSE -a

NoPattern == [type |-> "none"]

(***************************************************************************)
(* services/candleDetector: candle helpers                                 *)
(***************************************************************************)
body(c)      == Abs(c.close - c.open)
range(c)     == c.high - c.low
upperWick(c) == c.high - Max(c.open, c.close)
lowerWick(c) == Min(c.open, c.close) - c.low
isBullish(c) == c.close > c.open
isBearish(c) == c.close < c.open

\* The inner loop of aggregateCandles: the running high and low of a slice,
\* started at -Infinity and Infinity.
RECURSIVE sliceHigh(_, _, _)
sliceHigh(slice, i, acc) ==
    IF i > Len(slice) THEN acc
    ELSE sliceHigh(slice, i + 1, IF slice[i] > acc THEN slice[i] ELSE acc)

RECURSIVE sliceLow(_, _, _)
sliceLow(slice, i, acc) ==
    IF i > Len(slice) THEN acc
    ELSE sliceLow(slice, i + 1, IF slice[i] < acc THEN slice[i] ELSE acc)

\* history.slice(start, start + ticksPerCandle), start 0-based.
jsSlice(h, start, end) == SubSeq(h, start + 1, Min(end, Len(h)))

candleAt(h, i, ticksPerCandle) ==
    LET start == i * ticksPerCandle
        slice == jsSlice(h, start, start + ticksPerCandle)
    IN  [open       |-> slice[1],
         high       |-> sliceHigh(slice, 1, -Infinity),
         low        |-> sliceLow(slice, 1, Infinity),
         close      |-> slice[Len(slice)],
         tickCount  |-> ticksPerCandle,
         startIndex |-> start]

\* A mutation: the trailing partial window counts as a candle.
completeCount_partial(len, ticksPerCandle) ==
    (len + ticksPerCandle - 1) \div ticksPerCandle

completeCount(len, ticksPerCandle) == len \div ticksPerCandle

aggregateCandles(h, ticksPerCandle) ==
    [i \in 1..completeCount(Len(h), ticksPerCandle) |->
        candleAt(h, i - 1, ticksPerCandle)]

(***************************************************************************)
(* services/candleDetector: pattern detectors.  A strength is the rational *)
(* <<n, d>> (n/d); <<0, 1>> is "not detected".                             *)
(***************************************************************************)
Zero == <<0, 1>>
One  == <<1, 1>>
Positive(s) == s[1] > 0
\* Math.min(n / d, 1) for d > 0
capRatio_uncapped(n, d) == <<n, d>>

capRatio(n, d) == IF n >= d THEN One ELSE <<n, d>>

detectDoji(c) ==
    LET r == range(c) IN
    IF r = 0 THEN Zero
    ELSE IF 10 * body(c) < r THEN One             \* ratio < 0.1
    ELSE IF 100 * body(c) < 15 * r THEN <<7, 10>> \* ratio < 0.15
    ELSE Zero

detectHammer(c) ==
    LET b == body(c)  r == range(c)  lw == lowerWick(c)  uw == upperWick(c) IN
    IF r = 0 \/ b = 0 THEN Zero
    ELSE IF lw >= b * 2 /\ 10 * uw < 3 * r THEN capRatio(lw, b * 2)
    ELSE Zero

detectShootingStar(c) ==
    LET b == body(c)  r == range(c)  lw == lowerWick(c)  uw == upperWick(c) IN
    IF r = 0 \/ b = 0 THEN Zero
    ELSE IF uw >= b * 2 /\ 10 * lw < 3 * r THEN capRatio(uw, b * 2)
    ELSE Zero

detectBullishEngulfing(prev, curr) ==
    IF ~isBearish(prev) \/ ~isBullish(curr) THEN Zero
    ELSE IF body(prev) = 0 THEN Zero
    ELSE IF curr.open <= prev.close /\ curr.close >= prev.open
         THEN capRatio(body(curr), body(prev))
    ELSE Zero

detectBearishEngulfing(prev, curr) ==
    IF ~isBullish(prev) \/ ~isBearish(curr) THEN Zero
    ELSE IF body(prev) = 0 THEN Zero
    ELSE IF curr.open >= prev.close /\ curr.close <= prev.open
         THEN capRatio(body(curr), body(prev))
    ELSE Zero

detectMorningStar(c0, c1, c2) ==
    IF ~isBearish(c0) THEN Zero
    ELSE IF range(c0) = 0 \/ body(c0) = 0 THEN Zero
    ELSE IF 10 * body(c1) > 4 * body(c0) THEN Zero      \* c1Body > c0Body * 0.4
    ELSE IF ~isBullish(c2) THEN Zero
    ELSE IF 2 * c2.close > c0.open + c0.close            \* c2.close > c0Mid
         THEN capRatio(body(c2), body(c0))
    ELSE Zero

detectEveningStar(c0, c1, c2) ==
    IF ~isBullish(c0) THEN Zero
    ELSE IF range(c0) = 0 \/ body(c0) = 0 THEN Zero
    ELSE IF 10 * body(c1) > 4 * body(c0) THEN Zero
    ELSE IF ~isBearish(c2) THEN Zero
    ELSE IF 2 * c2.close < c0.open + c0.close
         THEN capRatio(body(c2), body(c0))
    ELSE Zero

PATTERN_META ==
    [morningStar      |-> [sentiment |-> "bullish", priority |-> 3],
     eveningStar      |-> [sentiment |-> "bearish", priority |-> 3],
     bullishEngulfing |-> [sentiment |-> "bullish", priority |-> 2],
     bearishEngulfing |-> [sentiment |-> "bearish", priority |-> 2],
     hammer           |-> [sentiment |-> "bullish", priority |-> 1],
     shootingStar     |-> [sentiment |-> "bearish", priority |-> 1],
     doji             |-> [sentiment |-> "neutral", priority |-> 1]]

priorityOf(p) == PATTERN_META[p.type].priority

ofPriority(ps, n) == SelectSeq(ps, LAMBDA p : priorityOf(p) = n)

\* A mutation: the comparator reversed (a - b), lowest priority first.
sortByPriority_ascending(ps) ==
    ofPriority(ps, 1) \o ofPriority(ps, 2) \o ofPriority(ps, 3)

\* patterns.sort((a, b) => priority(b) - priority(a)): Array.prototype.sort
\* is stable, so patterns of one priority keep the order they were pushed in.
sortByPriority(ps) ==
    ofPriority(ps, 3) \o ofPriority(ps, 2) \o ofPriority(ps, 1)

\* A mutation: the index pushed is the number of candles.
pushIf_countAsIndex(strength, type, sentiment, lastIdx) ==
    IF Positive(strength)
    THEN << [type |-> type, sentiment |-> sentiment, strength |-> strength,
             candleIndex |-> lastIdx + 1] >>
    ELSE << >>

\* patterns.push({type, sentiment, strength, timestamp: now, candleIndex})
\* when the detector's strength is positive (the timestamp is left out).
pushIf(strength, type, sentiment, lastIdx) ==
    IF Positive(strength)
    THEN << [type |-> type, sentiment |-> sentiment, strength |-> strength,
             candleIndex |-> lastIdx] >>
    ELSE << >>

\* The patterns array before sorting, in push order; cs is the candle array
\* (1-based here, candleIndex is the code's 0-based index).
matchedPatterns(cs) ==
    LET n       == Len(cs)
        lastIdx == n - 1
        last    == cs[n]
        three   == IF n >= 3
                   THEN pushIf(detectMorningStar(cs[n - 2], cs[n - 1], last),
                               "morningStar", "bullish", lastIdx)
                        \o pushIf(detectEveningStar(cs[n - 2], cs[n - 1], last),
                                  "eveningStar", "bearish", lastIdx)
                   ELSE << >>
        two     == IF n >= 2
                   THEN pushIf(detectBullishEngulfing(cs[n - 1], last),
                               "bullishEngulfing", "bullish", lastIdx)
                        \o pushIf(detectBearishEngulfing(cs[n - 1], last),
                                  "bearishEngulfing", "bearish", lastIdx)
                   ELSE << >>
        one     == pushIf(detectDoji(last), "doji", "neutral", lastIdx)
                   \o pushIf(detectHammer(last), "hammer", "bullish", lastIdx)
                   \o pushIf(detectShootingStar(last), "shootingStar", "bearish",
                             lastIdx)
    IN  three \o two \o one

\* The patterns array of detectPatterns(h) as it is before the sort.
matchedOf(h) ==
    LET cs == aggregateCandles(h, TICKS_PER_CANDLE) IN
    IF Len(cs) = 0 THEN << >> ELSE matchedPatterns(cs)

detectPatterns(h) ==
    LET cs == aggregateCandles(h, TICKS_PER_CANDLE) IN
    IF Len(cs) = 0 THEN [candles |-> cs, patterns |-> << >>]
    ELSE LET all    == matchedPatterns(cs)
             sorted == IF Len(all) > 1 THEN sortByPriority(all) ELSE all
             best   == IF Len(sorted) > 0 THEN << sorted[1] >> ELSE << >>
         IN  [candles |-> cs, patterns |-> best]

(***************************************************************************)
(* stores/stockStore                                                       *)
(***************************************************************************)
NoDetection == [at |-> 0, hit |-> FALSE, before |-> 0, replaced |-> FALSE]
NothingWiped == [history |-> FALSE, candles |-> FALSE, pattern |-> FALSE]

\* INITIAL_STATE (the fields this model follows)
InitialState ==
    /\ history = << >>
    /\ totalTicks = 0
    /\ candles = << >>
    /\ lastPattern = NoPattern
    /\ lastPatternCandleCount = 0
    /\ price = 0
    /\ previousPrice = 0
    /\ open = 0
    /\ high = 0
    /\ low = Infinity
    /\ change = 0
    /\ arrived = << >>
    /\ detectRuns = 0
    /\ lastDetected = NoDetection
    /\ wiped = NothingWiped

\* A mutation: slice(0, HISTORY_SIZE), the oldest entries kept.
capHistory_keepOldest(h) == SubSeq(h, 1, Min(Len(h), HISTORY_SIZE))

\* A mutation: the cap is not a multiple of the candle width.
capHistory_shortCap(h) == SubSeq(h, Max(1, Len(h) - (HISTORY_SIZE - 10) + 1), Len(h))

\* [...state.history, tick.price].slice(-HISTORY_SIZE), applied to the
\* appended array
capHistory(h) == SubSeq(h, Max(1, Len(h) - HISTORY_SIZE + 1), Len(h))

\* A mutation: the boundary test also passes when the count did not grow.
crossesBoundary_always(prevCandleCount, newCandleCount) ==
    newCandleCount >= prevCandleCount

\* newCandleCount > prevCandleCount
crossesBoundary(prevCandleCount, newCandleCount) ==
    newCandleCount > prevCandleCount

\* A mutation: a cooldown of one candle instead of two.
cooldownAccepts_oneCandle(candlesSinceLast, lastCount) ==
    candlesSinceLast >= 1 \/ lastCount = 0

\* candlesSinceLast >= 2 || lastPatternCandleCount === 0
cooldownAccepts(candlesSinceLast, lastCount) ==
    candlesSinceLast >= 2 \/ lastCount = 0

\* a || b of two numbers: a unless it is 0
orElse_second(a, b) == b
orElse(a, b) == IF a # 0 THEN a ELSE b

\* useStockStore.processTick(tick), tick.price = p
processTick(p) ==
    LET h               == capHistory(Append(history, p))
        ticks           == totalTicks + 1
        prevCandleCount == totalTicks \div TICKS_PER_CANDLE
        newCandleCount  == ticks \div TICKS_PER_CANDLE
        detects         == crossesBoundary(prevCandleCount, newCandleCount)
        result          == detectPatterns(h)
        hit             == detects /\ Len(result.patterns) > 0
        accepts         == hit /\ cooldownAccepts(newCandleCount - lastPatternCandleCount,
                                                  lastPatternCandleCount)
    IN  /\ history' = h
        /\ totalTicks' = ticks
        /\ open' = orElse(open, p)
        /\ high' = Max(orElse(high, p), p)
        /\ low' = Min(IF low = Infinity THEN p ELSE low, p)
        /\ change' = p - orElse(open, p)
        /\ price' = p
        /\ previousPrice' = orElse(price, p)
        /\ candles' = IF detects THEN result.candles ELSE candles
        /\ lastPattern' = IF accepts THEN result.patterns[1] ELSE lastPattern
        /\ lastPatternCandleCount' =
               IF accepts THEN newCandleCount ELSE lastPatternCandleCount
        /\ arrived' = Append(arrived, p)
        /\ detectRuns' = IF detects THEN detectRuns + 1 ELSE detectRuns
        /\ lastDetected' =
               IF detects
               THEN [at |-> newCandleCount, hit |-> hit,
                     before |-> lastPatternCandleCount, replaced |-> accepts]
               ELSE lastDetected
        /\ wiped' = wiped

\* The price of the n-th tick on the deterministic feed.
RampPrice(n) == n

\* A tick arrives while the prices are free: the second and the last tick of
\* every candle window (and the very first tick) take any price, every other
\* tick repeats the previous price.
TickFree ==
    /\ feed = "free"
    /\ totalTicks < MaxFreeTicks
    /\ \E p \in FreePrices :
          /\ \/ totalTicks = 0
             \/ (totalTicks + 1) % TICKS_PER_CANDLE \in {0, 2}
             \/ p = price
          /\ processTick(p)
    /\ UNCHANGED feed

\* A tick arrives on the deterministic feed.
TickRamp ==
    /\ feed = "ramp"
    /\ totalTicks < MaxLongTicks
    /\ processTick(RampPrice(totalTicks + 1))
    /\ UNCHANGED feed

\* A mutation: the reset leaves the cooldown's candle count.
ResetStore_keepsCooldown ==
    /\ totalTicks > 0
    /\ history' = << >>
    /\ totalTicks' = 0
    /\ candles' = << >>
    /\ lastPattern' = NoPattern
    /\ price' = 0
    /\ previousPrice' = 0
    /\ open' = 0
    /\ high' = 0
    /\ low' = Infinity
    /\ change' = 0
    /\ arrived' = << >>
    /\ detectRuns' = 0
    /\ lastDetected' = NoDetection
    /\ wiped' = [history |-> history # << >>, candles |-> candles # << >>,
                 pattern |-> lastPattern # NoPattern]
    /\ UNCHANGED <<feed, lastPatternCandleCount>>

\* setSymbol / startProvider: set({symbol, ...INITIAL_STATE})
ResetStore ==
    /\ totalTicks > 0
    /\ history' = << >>
    /\ totalTicks' = 0
    /\ candles' = << >>
    /\ lastPattern' = NoPattern
    /\ lastPatternCandleCount' = 0
    /\ price' = 0
    /\ previousPrice' = 0
    /\ open' = 0
    /\ high' = 0
    /\ low' = Infinity
    /\ change' = 0
    /\ arrived' = << >>
    /\ detectRuns' = 0
    /\ lastDetected' = NoDetection
    /\ wiped' = [history |-> history # << >>, candles |-> candles # << >>,
                 pattern |-> lastPattern # NoPattern]
    /\ UNCHANGED feed

(***************************************************************************)
(* Market-data providers (services/*Provider).  One instance is modelled,  *)
(* of the transport chosen in Init.  A handler is a function from the      *)
(* instance and its environment (a record s) to their values after the     *)
(* handler; an action applies the handlers of one event and commits.       *)
(***************************************************************************)
Symbols == {"A", "B"}

MaxChanges == 2      \* changeSymbol calls in a run
MaxTasks   == 2      \* awaits in flight at a time
MaxDrops   == 7      \* consecutive unintentional socket closes

\* Delays and intervals of the providers, in ms
AV_POLL_INTERVAL    == 8000
AV_BACKOFF_INTERVAL == 60000
REST_POLL_INTERVAL  == 5000
IB_POLL_INTERVAL    == 3000
TICKLE_INTERVAL     == 60000
SIM_INTERVAL        == 100
BASE_RECONNECT      == 1000
MAX_RECONNECT       == 30000

\* The fields of an instance; a transport uses the fields its class declares,
\* the others stay at these values.
NewInstance ==
    [symbol           |-> "A",
     active           |-> FALSE,
     currentInterval  |-> AV_POLL_INTERVAL,
     pollTimer        |-> "null",
     reconnectTimer   |-> "null",
     tickleTimer      |-> "null",
     reconnectDelay   |-> BASE_RECONNECT,
     intentionalClose |-> FALSE,
     fallbackToRest   |-> FALSE,
     ws               |-> "null",
     conidCache       |-> {},
     currentConid     |-> "null",
     simulator        |-> "null"]

NoStep == [act |-> "none", cbs |-> << >>, stale |-> FALSE, sched |-> 0,
           leftError |-> FALSE, polls |-> 0, wait |-> 0, limited |-> FALSE,
           authed |-> FALSE, missing |-> FALSE]

\* The instance and its environment before a handler runs.
Now == [this |-> this, socks |-> socks, tasks |-> tasks, timers |-> timers,
        status |-> status, cbs |-> << >>, sched |-> 0, polls |-> 0, wait |-> 0,
        limited |-> rateLimited, authed |-> authenticated, missing |-> FALSE]

\* options.onStatusChange(v) and options.onTick({symbol: sym, ...})
onStatusChange(s, v) ==
    [s EXCEPT !.status = v, !.cbs = Append(@, [cb |-> "status", v |-> v])]
onTick(s, sym) ==
    [s EXCEPT !.cbs = Append(@, [cb |-> "tick", v |-> sym])]

\* A timer of kind k is "held" while the instance's handle field names it.
Held(s, k) == {t \in BagToSet(s.timers) : t.k = k /\ t.held}

\* clearTimeout(handle) / clearInterval(handle)
clearTimeout(s, k) == [s EXCEPT !.timers = @ (-) SetToBag(Held(s, k))]

\* handle = setTimeout(..., delay): a timer still pending under the old
\* handle value stays pending, no longer named by the field.
setTimeout(s, k, delay) ==
    LET h        == Held(s, k)
        orphaned == {[t EXCEPT !.held = FALSE] : t \in h}
    IN  [s EXCEPT !.timers = ((@ (-) SetToBag(h)) (+) SetToBag(orphaned))
                             (+) SetToBag({[k |-> k, held |-> TRUE, delay |-> delay]})]

\* The requests that ask the data source about a symbol.
DataRequests == {"avFetch", "pgFetch", "ibResolve", "ibSnap"}

addTask(s, k, sym) ==
    [s EXCEPT !.tasks = @ (+) SetToBag({[k |-> k, sym |-> sym, stale |-> FALSE]}),
              !.polls = IF k \in DataRequests THEN @ + 1 ELSE @]
dropTask(s, t) == [s EXCEPT !.tasks = @ (-) SetToBag({t})]
dropTimer(s, t) == [s EXCEPT !.timers = @ (-) SetToBag({t})]

\* changeSymbol was called while these requests were in flight.
markStale(s) ==
    [s EXCEPT !.tasks =
        LET old == @ IN
        [t \in {[x EXCEPT !.stale = TRUE] : x \in BagToSet(old)} |->
            CopiesIn([t EXCEPT !.stale = FALSE], old) + CopiesIn([t EXCEPT !.stale = TRUE], old)]]

Room(n) == BagCardinality(tasks) + n <= MaxTasks

TasksOf(k)  == {t \in BagToSet(tasks) : t.k = k}
TimersOf(k) == {t \in BagToSet(timers) : t.k = k}

\* Whether a status other than error is reported after error has been.
LeavesError(cbs, seenBefore) ==
    \E i \in 1..Len(cbs) :
        /\ cbs[i].cb = "status" /\ cbs[i].v # "error"
        /\ seenBefore \/ \E j \in 1..(i - 1) : cbs[j].cb = "status" /\ cbs[j].v = "error"

\* Whether onStatusChange(v) is among the callbacks cbs.
Reports(cbs, v) == \E i \in 1..Len(cbs) : cbs[i].cb = "status" /\ cbs[i].v = v

\* Whether onTick is among the callbacks cbs.
Ticks(cbs) == \E i \in 1..Len(cbs) : cbs[i].cb = "tick"

\* The step act ends with the instance and environment s.  drops counts the
\* unintentional socket closes since connected was last reported.
Commit(s, act, stale, newDrops) ==
    /\ this' = s.this
    /\ socks' = s.socks
    /\ tasks' = s.tasks
    /\ timers' = s.timers
    /\ status' = s.status
    /\ drops' = IF Reports(s.cbs, "connected") THEN 0 ELSE newDrops
    /\ errSeen' = IF act \in {"connect", "disconnect", "disconnectAgain"} THEN FALSE
                  ELSE errSeen \/ Reports(s.cbs, "error")
    /\ rateLimited' = s.limited
    /\ authenticated' = s.authed
    /\ step' = [act |-> act, cbs |-> s.cbs, stale |-> stale, sched |-> s.sched,
                leftError |-> act \notin {"connect", "disconnect", "disconnectAgain"}
                              /\ LeavesError(s.cbs, errSeen),
                polls |-> s.polls, wait |-> s.wait,
                limited |-> rateLimited, authed |-> authenticated,
                missing |-> s.missing]
    /\ UNCHANGED kind

(***************************************************************************)
(* services/alphaVantageProvider: AlphaVantageProvider                     *)
(***************************************************************************)
\* poll() up to its first await
AvPoll(s) ==
    IF ~s.this.active THEN s ELSE addTask(s, "avFetch", s.this.symbol)

AvScheduleNext(s) ==
    IF ~s.this.active THEN s
    ELSE LET s1 == setTimeout(s, "poll", s.this.currentInterval)
         IN  [s1 EXCEPT !.this.pollTimer = "set"]

\* catch (err) { if (!this.active) return; onStatusChange('error') } and the
\* scheduleNext() that follows the try statement
AvCatch(s) ==
    IF ~s.this.active THEN s
    ELSE AvScheduleNext(onStatusChange(s, "error"))

\* A mutation: the stale check compares nothing.
AvIsStale_never(s, sym) == FALSE

\* symbol !== this.options.symbol || !this.active
AvIsStale(s, sym) == sym # s.this.symbol \/ ~s.this.active

AvConnectH(s) ==
    AvPoll(onStatusChange(
        [s EXCEPT !.this.active = TRUE, !.this.currentInterval = AV_POLL_INTERVAL],
        "connecting"))

\* A mutation: disconnect flips the activity flag.
AvDisconnectH_toggles(s) ==
    LET s1 == [s EXCEPT !.this.active = ~@]
        s2 == IF s1.this.pollTimer # "null"
              THEN [clearTimeout(s1, "poll") EXCEPT !.this.pollTimer = "null"]
              ELSE s1
    IN  onStatusChange(s2, "disconnected")

AvDisconnectH(s) ==
    LET s1 == [s EXCEPT !.this.active = FALSE]
        s2 == IF s1.this.pollTimer # "null"
              THEN [clearTimeout(s1, "poll") EXCEPT !.this.pollTimer = "null"]
              ELSE s1
    IN  onStatusChange(s2, "disconnected")

AvChangeSymbolH(s, sym) ==
    LET s1 == [s EXCEPT !.this.symbol = sym]
        s2 == IF s1.this.pollTimer # "null" THEN clearTimeout(s1, "poll") ELSE s1
        s3 == [s2 EXCEPT !.this.currentInterval = AV_POLL_INTERVAL]
    IN  IF s3.this.active THEN AvPoll(s3) ELSE s3

\* await fetch(url) settles
AvFetchDoneH(s, t, outcome) ==
    IF outcome = "reject" THEN AvCatch(s)
    ELSE IF ~s.this.active THEN s
    ELSE IF outcome = "httpError" THEN AvCatch(s)
    ELSE [s EXCEPT !.tasks = @ (+) SetToBag({[t EXCEPT !.k = "avJson"]})]

\* await res.json() settles
AvJsonDoneH(s, t, outcome) ==
    IF outcome = "reject" THEN AvCatch(s)
    ELSE IF AvIsStale(s, t.sym) THEN s
    ELSE IF outcome = "rateLimited"
         THEN AvScheduleNext([onStatusChange(s, "error")
                                EXCEPT !.this.currentInterval = AV_BACKOFF_INTERVAL,
                                       !.limited = TRUE])
    ELSE IF outcome = "noQuote"
         THEN AvScheduleNext([onStatusChange(s, "error") EXCEPT !.missing = TRUE])
    ELSE AvScheduleNext(onTick([onStatusChange(s, "connected")
                                  EXCEPT !.this.currentInterval = AV_POLL_INTERVAL,
                                         !.limited = FALSE],
                               t.sym))

AvFetchDone ==
    /\ kind = "alphaVantage"
    /\ \E t \in TasksOf("avFetch"), outcome \in {"ok", "httpError", "reject"} :
          Commit(AvFetchDoneH(dropTask(Now, t), t, outcome), "fetchDone", t.stale, drops)
    /\ UNCHANGED <<phase, calls>>

AvJsonDone ==
    /\ kind = "alphaVantage"
    /\ \E t \in TasksOf("avJson"),
          outcome \in {"quote", "noQuote", "rateLimited", "reject"} :
          Commit(AvJsonDoneH(dropTask(Now, t), t, outcome), "pollDone", t.stale, drops)
    /\ UNCHANGED <<phase, calls>>

\* setTimeout(() => this.poll(), this.currentInterval) fires
AvPollTimerFire ==
    /\ kind = "alphaVantage"
    /\ Room(1)
    /\ \E t \in TimersOf("poll") :
          Commit(AvPoll([dropTimer(Now, t) EXCEPT !.wait = t.delay]), "pollTimer",
                 FALSE, drops)
    /\ UNCHANGED <<phase, calls>>

(***************************************************************************)
(* WebSockets.  A socket is [st, cur, auth, subs, late, byClient]: cur     *)
(* while this.ws names it, byClient once the instance called close() on    *)
(* it, subs the symbols subscribed by the messages sent so far, late the   *)
(* symbols unsubscribed whose trades may still be on their way.            *)
(*   connecting --open--> open                                             *)
(*   connecting/open --error--> failed --close--> closed   (network)       *)
(*   open --close--> closed                                (server)        *)
(*   open --close()--> closing --close--> closed                           *)
(*   connecting --close()--> aborting --error--> failed --close--> closed  *)
(* No message event is delivered once close() was called (readyState is    *)
(* no longer OPEN).  A closed socket is kept while this.ws still names it. *)
(***************************************************************************)
NewSocket == [st |-> "connecting", cur |-> TRUE, auth |-> "none", subs |-> {},
              late |-> {}, byClient |-> FALSE]

SocksIn(states) == {x \in BagToSet(socks) : x.st \in states}

\* The socket x becomes y.
putSock(s, x, y) ==
    [s EXCEPT !.socks = (@ (-) SetToBag({x})) (+) SetToBag({y})]

mapCur(s, F(_)) ==
    [s EXCEPT !.socks =
        LET c == {x \in BagToSet(@) : x.cur}
        IN  (@ (-) SetToBag(c)) (+) SetToBag({F(x) : x \in c})]

closed(x) ==
    IF x.st = "connecting" THEN [x EXCEPT !.st = "aborting", !.byClient = TRUE]
    ELSE IF x.st = "open" THEN [x EXCEPT !.st = "closing", !.byClient = TRUE]
    ELSE x

\* this.ws.close()
wsClose(s) == mapCur(s, closed)

\* this.ws = null (or this.ws overwritten): the socket lives on by itself.
wsForget(s) ==
    LET s1 == mapCur(s, LAMBDA x : [x EXCEPT !.cur = FALSE])
    IN  [s1 EXCEPT !.this.ws = "null",
                   !.socks = @ (-) SetToBag({x \in BagToSet(@) :
                                                 x.st = "closed" /\ ~x.cur})]

\* this.ws = new WebSocket(url)
newWebSocket(s) ==
    LET s1 == wsForget(s)
    IN  [s1 EXCEPT !.this.ws = "set", !.socks = @ (+) SetToBag({NewSocket})]

\* this.ws.readyState === WebSocket.OPEN
wsIsOpen(s) == \E x \in BagToSet(s.socks) : x.cur /\ x.st = "open"

\* The socket x has fired its close event.
sockGone(s, x) ==
    IF x.cur THEN putSock(s, x, [x EXCEPT !.st = "closed"])
    ELSE [s EXCEPT !.socks = @ (-) SetToBag({x})]

\* A mutation: the delay doubles without the cap.
nextReconnectDelay_uncapped(d) == d * 2

\* Math.min(this.reconnectDelay * 2, 30000)
nextReconnectDelay(d) == Min(d * 2, MAX_RECONNECT)

\* this.reconnectTimer = setTimeout(..., this.reconnectDelay)
scheduleReconnect(s) ==
    LET s1 == setTimeout(onStatusChange(s, "reconnecting"), "reconnect",
                         s.this.reconnectDelay)
    IN  [s1 EXCEPT !.this.reconnectTimer = "set", !.sched = s.this.reconnectDelay]

\* The server has seen every unsubscribe sent on the socket x: no trade of
\* an unsubscribed symbol is on its way any more.
PushDrained ==
    /\ kind \in {"finnhub", "polygon"}
    /\ \E x \in BagToSet(socks) :
          /\ x.late # {}
          /\ Commit(putSock(Now, x, [x EXCEPT !.late = {}]), "drained", FALSE, drops)
    /\ UNCHANGED <<phase, calls>>

(***************************************************************************)
(* services/finnhubProvider: FinnhubProvider                               *)
(***************************************************************************)
FhConnectH(s) ==
    newWebSocket(onStatusChange([s EXCEPT !.this.intentionalClose = FALSE],
                                "connecting"))

FhDisconnectH(s) ==
    LET s1 == [s EXCEPT !.this.intentionalClose = TRUE]
        s2 == IF s1.this.reconnectTimer # "null"
              THEN [clearTimeout(s1, "reconnect") EXCEPT !.this.reconnectTimer = "null"]
              ELSE s1
        s3 == IF s2.this.ws # "null"
              THEN LET u == IF wsIsOpen(s2)
                            THEN mapCur(s2, LAMBDA x :
                                     [x EXCEPT !.subs = @ \ {s2.this.symbol}])
                            ELSE s2
                   IN  wsForget(wsClose(u))
              ELSE s2
    IN  onStatusChange(s3, "disconnected")

\* A mutation: changeSymbol subscribes without unsubscribing.
FhChangeSymbolH_keepsPrev(s, sym) ==
    LET s1 == [s EXCEPT !.this.symbol = sym]
    IN  IF wsIsOpen(s1)
        THEN mapCur(s1, LAMBDA x : [x EXCEPT !.subs = @ \cup {sym}])
        ELSE s1

\* The trades of prev that the server sent before it sees the unsubscribe
\* arrive after changeSymbol has returned.
FhChangeSymbolH(s, sym) ==
    LET prev == s.this.symbol
        s1   == [s EXCEPT !.this.symbol = sym]
    IN  IF wsIsOpen(s1)
        THEN mapCur(s1, LAMBDA x : [x EXCEPT !.subs = (@ \ {prev}) \cup {sym},
                                             !.late = @ \cup (x.subs \ {sym})])
        ELSE s1

\* A mutation: onclose schedules a reconnect whatever intentionalClose is.
FhReconnects_always(s) == TRUE

\* ws.onclose: if (!this.intentionalClose)
FhReconnects(s) == ~s.this.intentionalClose

\* ws.onopen; this.subscribe sends on this.ws
FhOnOpenH(s, x) ==
    LET s1 == putSock(s, x, [x EXCEPT !.st = "open"])
        s2 == onStatusChange([s1 EXCEPT !.this.reconnectDelay = BASE_RECONNECT],
                             "connected")
    IN  IF wsIsOpen(s2)
        THEN mapCur(s2, LAMBDA y : [y EXCEPT !.subs = @ \cup {s2.this.symbol}])
        ELSE s2

\* ws.onclose
FhOnCloseH(s, x) ==
    LET s1 == sockGone(s, x)
    IN  IF FhReconnects(s1) THEN scheduleReconnect(s1) ELSE s1

FhOnOpen ==
    /\ kind = "finnhub"
    /\ \E x \in SocksIn({"connecting"}) :
          Commit(FhOnOpenH(Now, x), "open", FALSE, drops)
    /\ UNCHANGED <<phase, calls>>

\* ws.onmessage, a trade of a symbol the server has subscribed
FhOnTrade ==
    /\ kind = "finnhub"
    /\ \E x \in SocksIn({"open"}) : \E sym \in x.subs \cup x.late :
          Commit(onTick(Now, sym), "trade", FALSE, drops)
    /\ UNCHANGED <<phase, calls>>

\* ws.onmessage, {type: 'error'}
FhOnErrorMessage ==
    /\ kind = "finnhub"
    /\ SocksIn({"open"}) # {}
    /\ Commit(onStatusChange(Now, "error"), "errorMessage", FALSE, drops)
    /\ UNCHANGED <<phase, calls>>

\* ws.onerror: the connection failed, or close() was called before it opened
FhOnError ==
    /\ kind = "finnhub"
    /\ \E x \in SocksIn({"connecting", "open", "aborting"}) :
          /\ x.byClient \/ drops < MaxDrops
          /\ Commit(onStatusChange(putSock(Now, x, [x EXCEPT !.st = "failed"]), "error"),
                    "sockError", FALSE, drops)
    /\ UNCHANGED <<phase, calls>>

FhOnClose ==
    /\ kind = "finnhub"
    /\ \E x \in SocksIn({"open", "closing", "failed"}) :
          /\ x.st = "open" => drops < MaxDrops
          /\ Commit(FhOnCloseH(Now, x), "sockClose", FALSE,
                    IF x.byClient THEN drops ELSE drops + 1)
    /\ UNCHANGED <<phase, calls>>

\* The reconnect timer fires: the delay doubles, this.connect()
FhReconnectFire ==
    /\ kind = "finnhub"
    /\ \E t \in TimersOf("reconnect") :
          Commit(FhConnectH([dropTimer(Now, t) EXCEPT !.this.reconnectDelay =
                                nextReconnectDelay(@)]),
                 "reconnectTimer", FALSE, drops)
    /\ UNCHANGED <<phase, calls>>

(***************************************************************************)
(* services/polygonProvider: PolygonProvider                               *)
(***************************************************************************)
PgPollRest(s) ==
    IF s.this.intentionalClose THEN s ELSE addTask(s, "pgFetch", s.this.symbol)

\* if (!this.intentionalClose) this.pollTimer = setTimeout(...)
\* A mutation: no timer is set.
PgScheduleNext_never(s) == s

PgScheduleNext(s) ==
    IF s.this.intentionalClose THEN s
    ELSE [setTimeout(s, "poll", REST_POLL_INTERVAL) EXCEPT !.this.pollTimer = "set"]

PgCatch(s) ==
    IF s.this.intentionalClose THEN s
    ELSE PgScheduleNext(onStatusChange(s, "error"))

\* symbol !== this.options.symbol || this.intentionalClose
PgIsStale(s, sym) == sym # s.this.symbol \/ s.this.intentionalClose

PgStartRestFallback(s) ==
    PgPollRest(onStatusChange([s EXCEPT !.this.fallbackToRest = TRUE], "connecting"))

PgConnectH(s) ==
    newWebSocket(onStatusChange(
        [s EXCEPT !.this.intentionalClose = FALSE, !.this.fallbackToRest = FALSE],
        "connecting"))

PgDisconnectH(s) ==
    LET s1 == [s EXCEPT !.this.intentionalClose = TRUE]
        s2 == IF s1.this.reconnectTimer # "null"
              THEN [clearTimeout(s1, "reconnect") EXCEPT !.this.reconnectTimer = "null"]
              ELSE s1
        s3 == IF s2.this.pollTimer # "null"
              THEN [clearTimeout(s2, "poll") EXCEPT !.this.pollTimer = "null"]
              ELSE s2
        s4 == IF s3.this.ws # "null" THEN wsForget(wsClose(s3)) ELSE s3
    IN  onStatusChange(s4, "disconnected")

\* An unsubscribe / subscribe pair sent on an open socket takes effect once
\* the socket is authenticated.
PgChangeSymbolH(s, sym) ==
    LET prev == s.this.symbol
        s1   == [s EXCEPT !.this.symbol = sym]
    IN  IF s1.this.fallbackToRest
        THEN PgPollRest(IF s1.this.pollTimer # "null"
                        THEN clearTimeout(s1, "poll") ELSE s1)
        ELSE IF wsIsOpen(s1)
        THEN mapCur(s1, LAMBDA x :
                 IF x.auth = "ok"
                 THEN [x EXCEPT !.subs = (@ \ {prev}) \cup {sym},
                                !.late = @ \cup (x.subs \ {sym})]
                 ELSE x)
        ELSE s1

\* A mutation: onclose does not look at fallbackToRest.
PgReconnects_ignoresFallback(s) == ~s.this.intentionalClose

\* ws.onclose: if (!this.intentionalClose && !this.fallbackToRest)
PgReconnects(s) == ~s.this.intentionalClose /\ ~s.this.fallbackToRest

PgOnCloseH(s, x) ==
    LET s1 == sockGone(s, x)
    IN  IF PgReconnects(s1) THEN scheduleReconnect(s1) ELSE s1

\* ws.onopen: this.ws?.send(auth)
PgOnOpen ==
    /\ kind = "polygon"
    /\ \E x \in SocksIn({"connecting"}) :
          Commit(putSock(Now, x, [x EXCEPT !.st = "open",
                                           !.auth = IF x.cur THEN "sent" ELSE @]),
                 "open", FALSE, drops)
    /\ UNCHANGED <<phase, calls>>

\* ws.onmessage, status auth_success
PgOnAuthSuccess ==
    /\ kind = "polygon"
    /\ \E x \in SocksIn({"open"}) :
          /\ x.auth = "sent"
          /\ LET s1 == putSock(Now, x, [x EXCEPT !.auth = "ok"])
                 s2 == onStatusChange([s1 EXCEPT !.this.reconnectDelay = BASE_RECONNECT],
                                      "connected")
                 s3 == mapCur(s2, LAMBDA y :
                           IF y.st = "open" THEN [y EXCEPT !.subs = @ \cup {s2.this.symbol}]
                           ELSE y)
             IN  Commit(s3, "authSuccess", FALSE, drops)
    /\ UNCHANGED <<phase, calls>>

\* ws.onmessage, status auth_failed
PgOnAuthFailed ==
    /\ kind = "polygon"
    /\ Room(1)
    /\ \E x \in SocksIn({"open"}) :
          /\ x.auth = "sent"
          /\ Commit(PgStartRestFallback(wsForget(wsClose(Now))), "authFailed", FALSE, drops)
    /\ UNCHANGED <<phase, calls>>

\* ws.onmessage, a trade of a symbol the server has subscribed
PgOnTrade ==
    /\ kind = "polygon"
    /\ \E x \in SocksIn({"open"}) : \E sym \in x.subs \cup x.late :
          Commit(onTick(Now, sym), "trade", FALSE, drops)
    /\ UNCHANGED <<phase, calls>>

\* ws.onerror (logs only)
PgOnError ==
    /\ kind = "polygon"
    /\ \E x \in SocksIn({"connecting", "open", "aborting"}) :
          /\ x.byClient \/ drops < MaxDrops
          /\ Commit(putSock(Now, x, [x EXCEPT !.st = "failed"]), "sockError", FALSE, drops)
    /\ UNCHANGED <<phase, calls>>

PgOnClose ==
    /\ kind = "polygon"
    /\ \E x \in SocksIn({"open", "closing", "failed"}) :
          /\ x.st = "open" => drops < MaxDrops
          /\ Commit(PgOnCloseH(Now, x), "sockClose", FALSE,
                    IF x.byClient THEN drops ELSE drops + 1)
    /\ UNCHANGED <<phase, calls>>

\* The reconnect timer fires: the delay doubles, this.connectWebSocket()
PgReconnectFire ==
    /\ kind = "polygon"
    /\ \E t \in TimersOf("reconnect") :
          Commit(newWebSocket([dropTimer(Now, t) EXCEPT !.this.reconnectDelay =
                                  nextReconnectDelay(@)]),
                 "reconnectTimer", FALSE, drops)
    /\ UNCHANGED <<phase, calls>>

PgFetchDoneH(s, t, outcome) ==
    IF outcome = "reject" THEN PgCatch(s)
    ELSE IF s.this.intentionalClose THEN s
    ELSE IF outcome = "httpError" THEN PgCatch(s)
    ELSE [s EXCEPT !.tasks = @ (+) SetToBag({[t EXCEPT !.k = "pgJson"]})]

PgJsonDoneH(s, t, outcome) ==
    IF outcome = "reject" THEN PgCatch(s)
    ELSE IF PgIsStale(s, t.sym) THEN s
    ELSE IF outcome = "results"
         THEN PgScheduleNext(onTick(onStatusChange(s, "connected"), t.sym))
    ELSE PgScheduleNext([s EXCEPT !.missing = TRUE])

PgFetchDone ==
    /\ kind = "polygon"
    /\ \E t \in TasksOf("pgFetch"), outcome \in {"ok", "httpError", "reject"} :
          Commit(PgFetchDoneH(dropTask(Now, t), t, outcome), "fetchDone", t.stale, drops)
    /\ UNCHANGED <<phase, calls>>

PgJsonDone ==
    /\ kind = "polygon"
    /\ \E t \in TasksOf("pgJson"), outcome \in {"results", "noResults", "reject"} :
          Commit(PgJsonDoneH(dropTask(Now, t), t, outcome), "pollDone", t.stale, drops)
    /\ UNCHANGED <<phase, calls>>

PgPollTimerFire ==
    /\ kind = "polygon"
    /\ Room(1)
    /\ \E t \in TimersOf("poll") :
          Commit(PgPollRest(dropTimer(Now, t)), "pollTimer", FALSE, drops)
    /\ UNCHANGED <<phase, calls>>

(***************************************************************************)
(* services/ibkrProvider: InteractiveBrokersProvider.  A conid is named by *)
(* the symbol it resolves.                                                 *)
(***************************************************************************)
IbPoll(s) ==
    IF ~s.this.active \/ s.this.currentConid = "null" THEN s
    ELSE addTask(s, "ibSnap", s.this.symbol)

\* if (this.active) this.pollTimer = setTimeout(...)
IbScheduleNext(s) ==
    IF ~s.this.active THEN s
    ELSE [setTimeout(s, "poll", IB_POLL_INTERVAL) EXCEPT !.this.pollTimer = "set"]

IbCatch(s) ==
    IF ~s.this.active THEN s
    ELSE IbScheduleNext(onStatusChange(s, "error"))

\* !this.active || symbol !== this.options.symbol
IbIsStale(s, sym) == ~s.this.active \/ sym # s.this.symbol

\* startPolling() after its await
IbAfterResolve(s, sym, conid) ==
    IF IbIsStale(s, sym) THEN s
    ELSE IF conid = "null" THEN onStatusChange(s, "error")
    ELSE IbPoll([s EXCEPT !.this.currentConid = conid])

\* A mutation: resolveConid does not look into its cache.
IbStartPolling_alwaysResolves(s) ==
    IF ~s.this.active THEN s ELSE addTask(s, "ibResolve", s.this.symbol)

\* startPolling(); a cached conid resolves without a request
IbStartPolling(s) ==
    IF ~s.this.active THEN s
    ELSE IF s.this.symbol \in s.this.conidCache
         THEN IbAfterResolve(s, s.this.symbol, s.this.symbol)
    ELSE addTask(s, "ibResolve", s.this.symbol)

IbStartTickle(s) ==
    [setTimeout(s, "tickle", TICKLE_INTERVAL) EXCEPT !.this.tickleTimer = "set"]

IbAuthCatch(s) ==
    IF ~s.this.active THEN s ELSE onStatusChange(s, "error")

IbConnectH(s) ==
    addTask(onStatusChange([s EXCEPT !.this.active = TRUE], "connecting"),
            "ibAuth", s.this.symbol)

\* A mutation: disconnect leaves the keepalive interval running.
IbDisconnectH_leavesTickle(s) ==
    LET s1 == [s EXCEPT !.this.active = FALSE]
        s2 == IF s1.this.pollTimer # "null"
              THEN [clearTimeout(s1, "poll") EXCEPT !.this.pollTimer = "null"]
              ELSE s1
    IN  onStatusChange([s2 EXCEPT !.this.currentConid = "null"], "disconnected")

IbDisconnectH(s) ==
    LET s1 == [s EXCEPT !.this.active = FALSE]
        s2 == IF s1.this.pollTimer # "null"
              THEN [clearTimeout(s1, "poll") EXCEPT !.this.pollTimer = "null"]
              ELSE s1
        s3 == IF s2.this.tickleTimer # "null"
              THEN [clearTimeout(s2, "tickle") EXCEPT !.this.tickleTimer = "null"]
              ELSE s2
    IN  onStatusChange([s3 EXCEPT !.this.currentConid = "null"], "disconnected")

IbChangeSymbolH(s, sym) ==
    LET s1 == [s EXCEPT !.this.symbol = sym, !.this.currentConid = "null"]
        s2 == IF s1.this.pollTimer # "null"
              THEN [clearTimeout(s1, "poll") EXCEPT !.this.pollTimer = "null"]
              ELSE s1
    IN  IF s2.this.active THEN IbStartPolling(s2) ELSE s2

\* checkAuth: await fetch(auth/status) settles
IbAuthDoneH(s, t, outcome) ==
    IF outcome = "reject" THEN IbAuthCatch(s)
    ELSE IF ~s.this.active THEN s
    ELSE IF outcome = "httpError" THEN IbAuthCatch(s)
    ELSE [s EXCEPT !.tasks = @ (+) SetToBag({[t EXCEPT !.k = "ibAuthJson"]})]

\* checkAuth: await res.json() settles
IbAuthJsonDoneH(s, t, outcome) ==
    IF outcome = "reject" THEN IbAuthCatch(s)
    ELSE IF outcome = "authenticated"
         THEN [s EXCEPT !.tasks = @ (+) SetToBag({[t EXCEPT !.k = "ibAccounts"]}),
                        !.authed = TRUE]
    ELSE IF outcome = "connected"
         THEN [s EXCEPT !.tasks = @ (+) SetToBag({[t EXCEPT !.k = "ibReauth"]})]
    ELSE onStatusChange(s, "error")

\* checkAuth: await this.initAccounts() settles
IbAccountsDoneH(s) ==
    IF ~s.this.active THEN s
    ELSE IbStartTickle(IbStartPolling(onStatusChange(s, "connected")))

\* resolveConid: await fetch(secdef/search) settles
IbResolveDoneH(s, t, outcome) ==
    IF outcome = "ok"
    THEN [s EXCEPT !.tasks = @ (+) SetToBag({[t EXCEPT !.k = "ibResolveJson"]})]
    ELSE IbAfterResolve(s, t.sym, "null")

\* resolveConid: await res.json() settles
IbResolveJsonDoneH(s, t, outcome) ==
    IF outcome = "found"
    THEN IbAfterResolve([s EXCEPT !.this.conidCache = @ \cup {t.sym}], t.sym, t.sym)
    ELSE IbAfterResolve(s, t.sym, "null")

\* poll: await fetch(snapshot) settles
IbSnapDoneH(s, t, outcome) ==
    IF outcome = "reject" THEN IbCatch(s)
    ELSE IF IbIsStale(s, t.sym) THEN s
    ELSE IF outcome = "httpError" THEN IbCatch(s)
    ELSE [s EXCEPT !.tasks = @ (+) SetToBag({[t EXCEPT !.k = "ibSnapJson"]})]

\* poll: await res.json() settles
IbSnapJsonDoneH(s, t, outcome) ==
    IF outcome = "reject" THEN IbCatch(s)
    ELSE IF IbIsStale(s, t.sym) THEN s
    ELSE IF outcome = "price"
         THEN IbScheduleNext(onTick(onStatusChange(s, "connected"), t.sym))
    ELSE IbScheduleNext([s EXCEPT !.missing = TRUE])

IbAuthDone ==
    /\ kind = "interactiveBrokers"
    /\ \E t \in TasksOf("ibAuth"), outcome \in {"ok", "httpError", "reject"} :
          Commit(IbAuthDoneH(dropTask(Now, t), t, outcome), "authDone", t.stale, drops)
    /\ UNCHANGED <<phase, calls>>

IbAuthJsonDone ==
    /\ kind = "interactiveBrokers"
    /\ \E t \in TasksOf("ibAuthJson"),
          outcome \in {"authenticated", "connected", "neither", "reject"} :
          Commit(IbAuthJsonDoneH(dropTask(Now, t), t, outcome), "authJsonDone",
                 t.stale, drops)
    /\ UNCHANGED <<phase, calls>>

IbAccountsDone ==
    /\ kind = "interactiveBrokers"
    /\ \E t \in TasksOf("ibAccounts") :
          Commit(IbAccountsDoneH(dropTask(Now, t)), "accountsDone", t.stale, drops)
    /\ UNCHANGED <<phase, calls>>

\* checkAuth: await fetch(reauthenticate) settles either way
IbReauthDone ==
    /\ kind = "interactiveBrokers"
    /\ \E t \in TasksOf("ibReauth") :
          Commit(onStatusChange(dropTask(Now, t), "error"), "reauthDone", t.stale, drops)
    /\ UNCHANGED <<phase, calls>>

IbResolveDone ==
    /\ kind = "interactiveBrokers"
    /\ \E t \in TasksOf("ibResolve"), outcome \in {"ok", "httpError", "reject"} :
          Commit(IbResolveDoneH(dropTask(Now, t), t, outcome), "resolveDone",
                 t.stale, drops)
    /\ UNCHANGED <<phase, calls>>

IbResolveJsonDone ==
    /\ kind = "interactiveBrokers"
    /\ \E t \in TasksOf("ibResolveJson"), outcome \in {"found", "notFound", "reject"} :
          Commit(IbResolveJsonDoneH(dropTask(Now, t), t, outcome), "resolveJsonDone",
                 t.stale, drops)
    /\ UNCHANGED <<phase, calls>>

IbSnapDone ==
    /\ kind = "interactiveBrokers"
    /\ \E t \in TasksOf("ibSnap"), outcome \in {"ok", "httpError", "reject"} :
          Commit(IbSnapDoneH(dropTask(Now, t), t, outcome), "fetchDone", t.stale, drops)
    /\ UNCHANGED <<phase, calls>>

IbSnapJsonDone ==
    /\ kind = "interactiveBrokers"
    /\ \E t \in TasksOf("ibSnapJson"), outcome \in {"price", "noPrice", "reject"} :
          Commit(IbSnapJsonDoneH(dropTask(Now, t), t, outcome), "pollDone", t.stale, drops)
    /\ UNCHANGED <<phase, calls>>

IbPollTimerFire ==
    /\ kind = "interactiveBrokers"
    /\ Room(1)
    /\ \E t \in TimersOf("poll") :
          Commit(IbPoll(dropTimer(Now, t)), "pollTimer", FALSE, drops)
    /\ UNCHANGED <<phase, calls>>

\* The tickle interval fires; its request has no continuation.
IbTickleFire ==
    /\ kind = "interactiveBrokers"
    /\ TimersOf("tickle") # {}
    /\ Commit(Now, "tickle", FALSE, drops)
    /\ UNCHANGED <<phase, calls>>

(***************************************************************************)
(* services/simulatorProvider: SimulatorProvider over StockSimulator.      *)
(* this.simulator is the symbol of the running simulator.                  *)
(***************************************************************************)
\* this.simulator?.stop()
SimStop(s) ==
    IF s.this.simulator # "null" THEN clearTimeout(s, "sim") ELSE s

\* this.simulator = new StockSimulator(symbol, onTick); this.simulator.start(100)
SimStart(s) ==
    setTimeout([s EXCEPT !.this.simulator = s.this.symbol], "sim", SIM_INTERVAL)

SimConnectH(s) ==
    onStatusChange(SimStart(onStatusChange(s, "connecting")), "connected")

SimDisconnectH(s) ==
    onStatusChange([SimStop(s) EXCEPT !.this.simulator = "null"], "disconnected")

SimChangeSymbolH(s, sym) ==
    SimStart(SimStop([s EXCEPT !.this.symbol = sym]))

\* setInterval(() => this.step(), 100) fires
\* The interval of the generator this.simulator names ticks that
\* generator's symbol; an interval whose generator was replaced without
\* stop() ticks the symbol that generator was built with.
SimStep ==
    /\ kind = "simulator"
    /\ \E t \in TimersOf("sim") :
          \E sym \in (IF t.held THEN {this.simulator} ELSE Symbols) :
              Commit(onTick(Now, sym), "simStep", FALSE, drops)
    /\ UNCHANGED <<phase, calls>>

MaxSimChanges == 4   \* changeSymbol calls in a run of the simulator alone

\* changeSymbol(symbol) on an instance that is not connected: before
\* connect() or after disconnect()
SimChangeSymbolIdle ==
    /\ kind = "simulator"
    /\ phase # "live"
    /\ calls < MaxSimChanges
    /\ calls' = calls + 1
    /\ \E sym \in Symbols :
          Commit(SimChangeSymbolH(Now, sym), "changeSymbol", FALSE, drops)
    /\ UNCHANGED phase

(***************************************************************************)
(* IMarketDataProvider as the stock store drives it: startProvider calls   *)
(* connect() on a fresh instance, setSymbol calls changeSymbol() on the    *)
(* instance it holds, stopProvider / startProvider call disconnect() and   *)
(* drop the instance.  createProvider has no case for the exported         *)
(* InteractiveBrokersProvider; it is driven here as the other four are.    *)
(***************************************************************************)
Kinds == {"simulator", "finnhub", "alphaVantage", "polygon", "interactiveBrokers"}

connect(s) ==
    CASE kind = "simulator"          -> SimConnectH(s)
      [] kind = "finnhub"            -> FhConnectH(s)
      [] kind = "alphaVantage"       -> AvConnectH(s)
      [] kind = "polygon"            -> PgConnectH(s)
      [] kind = "interactiveBrokers" -> IbConnectH(s)

disconnect(s) ==
    CASE kind = "simulator"          -> SimDisconnectH(s)
      [] kind = "finnhub"            -> FhDisconnectH(s)
      [] kind = "alphaVantage"       -> AvDisconnectH(s)
      [] kind = "polygon"            -> PgDisconnectH(s)
      [] kind = "interactiveBrokers" -> IbDisconnectH(s)

changeSymbol(s, sym) ==
    CASE kind = "simulator"          -> SimChangeSymbolH(s, sym)
      [] kind = "finnhub"            -> FhChangeSymbolH(s, sym)
      [] kind = "alphaVantage"       -> AvChangeSymbolH(s, sym)
      [] kind = "polygon"            -> PgChangeSymbolH(s, sym)
      [] kind = "interactiveBrokers" -> IbChangeSymbolH(s, sym)

Connect ==
    /\ kind \in Kinds
    /\ phase = "new"
    /\ phase' = "live"
    /\ Commit(connect(Now), "connect", FALSE, 0)
    /\ UNCHANGED calls

ChangeSymbol ==
    /\ kind \in Kinds
    /\ phase = "live"
    /\ calls < MaxChanges
    /\ Room(1)
    /\ calls' = calls + 1
    /\ \E sym \in Symbols :
          Commit(changeSymbol(markStale(Now), sym), "changeSymbol", FALSE, drops)
    /\ UNCHANGED phase

Disconnect ==
    /\ kind \in Kinds
    /\ phase = "live"
    /\ phase' = "stopped"
    /\ Commit(disconnect(Now), "disconnect", FALSE, drops)
    /\ UNCHANGED calls

\* disconnect() once more on the instance that was disconnected
DisconnectAgain ==
    /\ kind \in Kinds
    /\ phase = "stopped"
    /\ Commit(disconnect(Now), "disconnectAgain", FALSE, drops)
    /\ UNCHANGED <<phase, calls>>

IdleProv ==
    /\ kind = "none"
    /\ phase = "new"
    /\ calls = 0
    /\ this = NewInstance
    /\ status = "disconnected"
    /\ socks = EmptyBag
    /\ tasks = EmptyBag
    /\ timers = EmptyBag
    /\ step = NoStep
    /\ drops = 0
    /\ errSeen = FALSE
    /\ rateLimited = FALSE
    /\ authenticated = FALSE

(***************************************************************************)
(* The stock store's provider orchestration (stores/stockStore) over the   *)
(* settings store.  An instance is [transport, symbol, state].  The calls  *)
(* are synchronous, so each is one step.                                   *)
(***************************************************************************)
MaxInstances == 3    \* provider instances created in a run

DataProviders == {"simulator", "finnhub", "alphaVantage", "polygon", "interactiveBrokers"}
Keys          == {"", "key"}

InitialSettings ==
    [dataProvider    |-> "simulator",
     finnhubKey      |-> "",
     alphaVantageKey |-> "",
     polygonKey      |-> "",
     ibkrGatewayUrl  |-> ""]

\* A mutation: the key of the selected kind is not looked at.
createProvider_ignoresKey(st) ==
    IF st.dataProvider \in {"finnhub", "alphaVantage", "polygon"}
    THEN st.dataProvider ELSE "simulator"

\* The class createProvider instantiates under the settings st.
createProvider(st) ==
    CASE st.dataProvider = "finnhub" ->
             IF st.finnhubKey # "" THEN "finnhub" ELSE "simulator"
      [] st.dataProvider = "alphaVantage" ->
             IF st.alphaVantageKey # "" THEN "alphaVantage" ELSE "simulator"
      [] st.dataProvider = "polygon" ->
             IF st.polygonKey # "" THEN "polygon" ELSE "simulator"
      [] OTHER -> "simulator"

\* A mutation: the held instance is dropped without disconnect().
disconnectHeld_skipped(insts, p) == insts

\* state.provider?.disconnect()
disconnectHeld(insts, p) ==
    IF p = 0 THEN insts ELSE [insts EXCEPT ![p].state = "disconnected"]

\* startProvider(sym): disconnect the held instance, create, connect, hold.
startProvider(sym) ==
    /\ Len(instances) < MaxInstances
    /\ symbol' = sym
    /\ instances' = Append(disconnectHeld(instances, provider),
                           [transport |-> createProvider(settings'),
                            symbol    |-> sym,
                            state     |-> "connected"])
    /\ provider' = Len(instances')

StartProvider ==
    /\ UNCHANGED settings
    /\ \E sym \in Symbols : startProvider(sym)

StopProvider ==
    /\ instances' = disconnectHeld(instances, provider)
    /\ provider' = 0
    /\ UNCHANGED <<settings, symbol>>

\* setSymbol(sym): changeSymbol on the held instance, else startProvider
SetSymbol ==
    /\ UNCHANGED settings
    /\ \E sym \in Symbols :
          IF provider # 0
          THEN /\ symbol' = sym
               /\ instances' = [instances EXCEPT ![provider].symbol = sym]
               /\ UNCHANGED provider
          ELSE startProvider(sym)

\* setDataProvider(dp); App's subscriber restarts the provider when the
\* kind changed.
SetDataProvider ==
    \E dp \in DataProviders :
        /\ settings' = [settings EXCEPT !.dataProvider = dp]
        /\ IF dp # settings.dataProvider
           THEN startProvider(symbol)
           ELSE UNCHANGED <<symbol, provider, instances>>

\* setFinnhubKey / setAlphaVantageKey / setPolygonKey / setIbkrGatewayUrl;
\* App's debounced restart is a StartProvider step.
SetKey ==
    /\ \E f \in {"finnhubKey", "alphaVantageKey", "polygonKey", "ibkrGatewayUrl"},
          v \in Keys :
          settings' = [settings EXCEPT ![f] = v]
    /\ UNCHANGED <<symbol, provider, instances>>

IdleOrch ==
    /\ settings = InitialSettings
    /\ symbol = "A"
    /\ provider = 0
    /\ instances = << >>

(***************************************************************************)
(* services/tickerSearch: searchTickers.  A query is a sequence of         *)
(* characters; a result is [symbol, provider].                             *)
(***************************************************************************)
CACHE_TTL == 300000      \* 5 * 60 * 1000 ms

MaxSearchCalls == 3      \* searchTickers calls in a run
MaxPending     == 2      \* calls waiting on their providers at a time
MaxClock       == 600000 \* latest time a run reaches, in ms

Queries == { << >>, <<" ">>, <<"a">>, <<" ", "A", " ">> }

\* What a provider's search function resolves with, as the symbols in order;
\* the empty list for a response that is not OK or has no result field.
ResultLists == { << >>, <<"X">>, <<"Y", "X">> }

\* How a provider's search promise settles, as allSettled reports it.
Settlements == {[status |-> "fulfilled", value |-> v] : v \in ResultLists}
               \cup {[status |-> "rejected", value |-> << >>]}

\* How far the clock moves between two steps.
ClockSteps == {CACHE_TTL - 1, CACHE_TTL}

\* String.prototype.trim
RECURSIVE trimStart(_)
trimStart(q) == IF q # << >> /\ Head(q) = " " THEN trimStart(Tail(q)) ELSE q

RECURSIVE trimEnd(_)
trimEnd(q) ==
    IF q # << >> /\ q[Len(q)] = " " THEN trimEnd(SubSeq(q, 1, Len(q) - 1)) ELSE q

trim(q) == trimEnd(trimStart(q))

\* String.prototype.toUpperCase
toUpperCase(q) ==
    [i \in 1..Len(q) |->
        CASE q[i] = "a" -> "A"
          [] q[i] = "b" -> "B"
          [] OTHER -> q[i]]

\* A mutation: the cache is keyed by the query as typed.
trimmed_raw(query) == query

\* const trimmed = query.trim().toUpperCase()
trimmed(query) == toUpperCase(trim(query))

\* The order in which searchTickers pushes the provider searches.
SearchOrder == <<"finnhub", "alphaVantage", "polygon">>

\* apiKeys as the set of providers whose key is non-empty.
KeySets == SUBSET {"finnhub", "alphaVantage", "polygon"}

\* Promise.allSettled(searches): the outcomes in the order of searches
settledOrder(c) == SelectSeq(SearchOrder, LAMBDA p : p \in c.keys)

\* A mutation: Promise.all, which rejects when one search rejects.
joinRejects_asAll(c, outs) == \E p \in c.keys : outs[p].status = "rejected"

\* A mutation: nothing is cached when no provider supplied a result.
\* (cacheable is what decides whether cache.set runs.)
cacheable_nonEmpty(all) == all # << >>

\* cache.set(trimmed, ...) runs for every result of the join
cacheable(all) == TRUE

\* await Promise.allSettled(searches) never rejects
joinRejects(c, outs) == FALSE

\* The results a provider's search resolved with.
resultsOf(outs, p) ==
    IF outs[p].status # "fulfilled" THEN << >>
    ELSE [i \in 1..Len(outs[p].value) |->
             [symbol |-> outs[p].value[i], provider |-> p]]

\* A mutation: a later entry of a symbol replaces the earlier one.
pushUnseen_lastWins(all, r) ==
    SelectSeq(all, LAMBDA x : x.symbol # r.symbol) \o <<r>>

\* if (!seen.has(r.symbol)) { seen.add(r.symbol); all.push(r) }
pushUnseen(all, r) ==
    IF \E i \in 1..Len(all) : all[i].symbol = r.symbol THEN all ELSE Append(all, r)

RECURSIVE pushAll(_, _)
pushAll(all, rs) ==
    IF rs = << >> THEN all ELSE pushAll(pushUnseen(all, Head(rs)), Tail(rs))

\* for (const result of settled) if (result.status === 'fulfilled') ...
RECURSIVE mergeSettled(_, _, _)
mergeSettled(outs, ps, all) ==
    IF ps = << >> THEN all
    ELSE mergeSettled(outs, Tail(ps), pushAll(all, resultsOf(outs, Head(ps))))

NoSearch == [act |-> "none", raw |-> << >>, keys |-> {}, issued |-> {},
             rejected |-> FALSE, returned |-> << >>, outs |-> << >>,
             had |-> FALSE, age |-> 0, cached |-> << >>]

\* cached && Date.now() - cached.ts < CACHE_TTL
isFresh(key) == key \in DOMAIN cache /\ clock - cache[key].ts < CACHE_TTL

\* A call as it begins: its arguments, and what the cache holds under the
\* trimmed, upper-cased query.
Called(query, keys) ==
    LET key == toUpperCase(trim(query))
    IN  [NoSearch EXCEPT
            !.raw    = query,
            !.keys   = keys,
            !.had    = key \in DOMAIN cache,
            !.age    = IF key \in DOMAIN cache THEN clock - cache[key].ts ELSE 0,
            !.cached = IF key \in DOMAIN cache THEN cache[key].results ELSE << >>]

\* searchTickers(query, apiKeys) up to its await
Search ==
    /\ nSearches < MaxSearchCalls
    /\ nSearches' = nSearches + 1
    /\ \E query \in Queries, keys \in KeySets :
          LET key  == trimmed(query)
              call == [raw |-> query, key |-> key, keys |-> keys]
              base == Called(query, keys)
          IN  IF key = << >>
              THEN /\ searched' = [base EXCEPT !.act = "empty"]
                   /\ UNCHANGED searches
              ELSE IF isFresh(key)
              THEN /\ searched' = [base EXCEPT !.act = "hit",
                                               !.returned = cache[key].results]
                   /\ UNCHANGED searches
              ELSE IF keys = {}
              THEN /\ searched' = [base EXCEPT !.act = "noKeys"]
                   /\ UNCHANGED searches
              ELSE /\ Len(searches) < MaxPending
                   /\ searched' = [base EXCEPT !.act = "miss", !.issued = keys]
                   /\ searches' = Append(searches, call)
    /\ UNCHANGED <<cache, clock>>

\* Every provider search of the i-th waiting call has settled (in whatever
\* order: allSettled reports the outcomes in the order of searches), and
\* searchTickers goes on after its await: merge, cache.set, return.
Join ==
    /\ \E i \in 1..Len(searches) :
       \E outs \in [searches[i].keys -> Settlements] :
          LET c   == searches[i]
              all == mergeSettled(outs, settledOrder(c), << >>)
              did == [NoSearch EXCEPT !.act = "join", !.raw = c.raw,
                                      !.keys = c.keys, !.outs = outs]
          IN  /\ searches' = [j \in 1..(Len(searches) - 1) |->
                                 IF j < i THEN searches[j] ELSE searches[j + 1]]
              /\ searched' = [did EXCEPT
                                 !.rejected = joinRejects(c, outs),
                                 !.returned = IF joinRejects(c, outs)
                                              THEN << >> ELSE all]
              /\ cache' = IF joinRejects(c, outs) \/ ~cacheable(all) THEN cache
                          ELSE [k \in DOMAIN cache \cup {c.key} |->
                                   IF k = c.key THEN [results |-> all, ts |-> clock]
                                   ELSE cache[k]]
    /\ UNCHANGED <<clock, nSearches>>

\* Time passes.
Advance ==
    /\ \E d \in ClockSteps :
          /\ clock + d <= MaxClock
          /\ clock' = clock + d
    /\ searched' = [NoSearch EXCEPT !.act = "advance"]
    /\ UNCHANGED <<cache, searches, nSearches>>

IdleSearch ==
    /\ cache = << >>
    /\ clock = 0
    /\ searches = << >>
    /\ nSearches = 0
    /\ searched = NoSearch

(***************************************************************************)
(* The settings store's indicator periods and custom presets.  A number    *)
(* is held in halves (41 is 20.5), so that Math.round has something to do. *)
(***************************************************************************)
MaxPeriodCalls == 4      \* calls of the period and preset operations in a run

num(i)       == 2 * i
isInteger(v) == v % 2 = 0

\* Math.round: to the nearest integer, a half goes up
round(v) == ((v + 1) \div 2) * 2

PeriodKeys == {"rsi", "macdFast", "macdSlow", "macdSignal", "adx", "atr",
               "emaShort", "emaLong"}

DEFAULT_PERIODS ==
    [rsi |-> 140, macdFast |-> 120, macdSlow |-> 260, macdSignal |-> 90,
     adx |-> 140, atr |-> 140, emaShort |-> 200, emaLong |-> 500]

PERIOD_RANGES ==
    [rsi |-> <<20, 300>>, macdFast |-> <<20, 200>>, macdSlow |-> <<50, 500>>,
     macdSignal |-> <<20, 200>>, adx |-> <<20, 300>>, atr |-> <<20, 300>>,
     emaShort |-> <<20, 400>>, emaLong |-> <<100, 1000>>]

\* { ...DEFAULT_PERIODS }
defaultPeriods == [k \in PeriodKeys |-> num(DEFAULT_PERIODS[k])]

\* The values setPeriod is given for a key: one and a half under the range,
\* a half over its low end, a half under and a half over its high end.
PeriodValues(key) ==
    {num(PERIOD_RANGES[key][1]) - 3, num(PERIOD_RANGES[key][1]) + 1,
     num(PERIOD_RANGES[key][2]) - 1, num(PERIOD_RANGES[key][2]) + 1}

PresetNames == {"p", "q"}

\* A mutation: the value is stored as given.
clamped_asGiven(rng, value) == value

\* Math.max(range[0], Math.min(range[1], Math.round(value)))
clamped(rng, value) ==
    Max(num(rng[1]), Min(num(rng[2]), round(value)))

\* s.customPresets.findIndex((p) => p.name === name), 0 for -1
findIndex(presets, name) ==
    IF \E i \in 1..Len(presets) : presets[i].name = name
    THEN CHOOSE i \in 1..Len(presets) :
            /\ presets[i].name = name
            /\ \A j \in 1..(i - 1) : presets[j].name # name
    ELSE 0

NoPeriodCall == [act |-> "none", key |-> "rsi", value |-> 0, name |-> ""]

PeriodCalled(did) ==
    /\ nPeriodCalls < MaxPeriodCalls
    /\ nPeriodCalls' = nPeriodCalls + 1
    /\ periodCall' = did

\* setPeriod(key, value)
SetPeriod ==
    \E key \in PeriodKeys : \E value \in PeriodValues(key) :
       /\ PeriodCalled([NoPeriodCall EXCEPT !.act = "setPeriod", !.key = key,
                                       !.value = value])
       /\ periods' = [periods EXCEPT ![key] = clamped(PERIOD_RANGES[key], value)]
       /\ UNCHANGED <<customPresets, settings>>

\* resetPeriods()
ResetPeriods ==
    /\ PeriodCalled([NoPeriodCall EXCEPT !.act = "resetPeriods"])
    /\ periods' = defaultPeriods
    /\ UNCHANGED <<customPresets, settings>>

\* resetDefaults(): the periods and the data provider go back to the
\* defaults, the presets and the keys stay.
ResetDefaults ==
    /\ PeriodCalled([NoPeriodCall EXCEPT !.act = "resetDefaults"])
    /\ periods' = defaultPeriods
    /\ settings' = [settings EXCEPT !.dataProvider = "simulator"]
    /\ UNCHANGED customPresets

\* savePreset(name)
SavePreset ==
    \E name \in PresetNames :
       LET preset   == [name |-> name, periods |-> periods]
           existing == findIndex(customPresets, name)
       IN  /\ PeriodCalled([NoPeriodCall EXCEPT !.act = "savePreset", !.name = name])
           /\ customPresets' = IF existing > 0
                                THEN [customPresets EXCEPT ![existing] = preset]
                                ELSE Append(customPresets, preset)
           /\ UNCHANGED <<periods, settings>>

\* loadPreset(name)
LoadPreset ==
    \E name \in PresetNames :
       LET found == findIndex(customPresets, name)
       IN  /\ PeriodCalled([NoPeriodCall EXCEPT !.act = "loadPreset", !.name = name])
           /\ periods' = IF found = 0 THEN periods
                          ELSE customPresets[found].periods
           /\ UNCHANGED <<customPresets, settings>>

IdlePeriods ==
    /\ periods = defaultPeriods
    /\ customPresets = << >>
    /\ nPeriodCalls = 0
    /\ periodCall = NoPeriodCall

(***************************************************************************)
(* services/indicators: computeRSI.  The prices are integers and every     *)
(* quotient is an exact fraction <<n, d>> in lowest terms with d > 0, so   *)
(* avgLoss === 0 and the comparisons of the result are exact.              *)
(***************************************************************************)
RECURSIVE gcd(_, _)
gcd(a, b) == IF b = 0 THEN a ELSE gcd(b, a % b)

abs(n) == IF n < 0 THEN -n ELSE n

\* n / d in lowest terms, for d # 0
frac(n, d) ==
    LET g == gcd(abs(n), abs(d))
        s == IF d < 0 THEN -1 ELSE 1
    IN  <<s * (n \div g), s * (d \div g)>>

whole(n) == <<n, 1>>
plus(a, b)  == frac(a[1] * b[2] + b[1] * a[2], a[2] * b[2])
minus(a, b) == frac(a[1] * b[2] - b[1] * a[2], a[2] * b[2])
times(a, b) == frac(a[1] * b[1], a[2] * b[2])
over(a, b)  == frac(a[1] * b[2], a[2] * b[1])
atMost(a, b) == a[1] * b[2] <= b[1] * a[2]

RECURSIVE reduceSum(_)
reduceSum(xs) == IF xs = << >> THEN 0 ELSE xs[1] + reduceSum(Tail(xs))

\* xs.slice(0, n)
sliceTo(xs, n) == SubSeq(xs, 1, Min(n, Len(xs)))

gainOf_abs(diff) == IF diff > 0 THEN diff ELSE -diff

\* diff > 0 ? diff : 0
gainOf(diff) == IF diff > 0 THEN diff ELSE 0

\* diff < 0 ? -diff : 0
lossOf(diff) == IF diff < 0 THEN -diff ELSE 0

gains(h)  == [i \in 1..(Len(h) - 1) |-> gainOf(h[i + 1] - h[i])]
losses(h) == [i \in 1..(Len(h) - 1) |-> lossOf(h[i + 1] - h[i])]

\* the smoothing loop from index i (1-based) on:
\* avg = (avg * (period - 1) + xs[i]) / period
RECURSIVE smoothed(_, _, _, _)
smoothed(avg, xs, i, period) ==
    IF i > Len(xs) THEN avg
    ELSE smoothed(over(plus(times(avg, whole(period - 1)), whole(xs[i])),
                       whole(period)),
                  xs, i + 1, period)

computeRSI(h, period) ==
    IF Len(h) < period + 1 THEN whole(50)
    ELSE LET avgGain0 == frac(reduceSum(sliceTo(gains(h), period)), period)
             avgLoss0 == frac(reduceSum(sliceTo(losses(h), period)), period)
             avgGain  == smoothed(avgGain0, gains(h), period + 1, period)
             avgLoss  == smoothed(avgLoss0, losses(h), period + 1, period)
             rs       == over(avgGain, avgLoss)
         IN  IF avgLoss = whole(0) THEN whole(100)
             ELSE minus(whole(100), over(whole(100), plus(whole(1), rs)))

(***************************************************************************)
(* The indicators of processTick that follow the configured periods:       *)
(* computeEMA, computeMACD and computeEMACrossover.  A JavaScript number   *)
(* is held as a whole count of parts, Unit parts to one, and every product *)
(* and quotient is rounded to the nearest part: the same operands give the *)
(* same result, as they do in floating point.                              *)
(***************************************************************************)
Unit == 10 ^ 4

fx(i) == i * Unit
fxMul(a, b) == (a * b + Unit \div 2) \div Unit
fxDiv(a, b) == (a * Unit + b \div 2) \div b

\* history as the numbers the indicators read
numbers(h) == [i \in 1..Len(h) |-> fx(h[i])]

\* clamp(value, min, max) of utils/math
clamp(value, min, max) == Max(min, Min(max, value))

\* ema = values[i] * k + ema * (1 - k)
emaStep(value, k, ema) == fxMul(value, k) + fxMul(ema, fx(1) - k)

\* k = 2 / (period + 1)
smoothing(period) == fxDiv(fx(2), fx(period + 1))

\* The values ema takes in the loop over values[lo..hi] that is entered with
\* ema = start.  The loop's steps are taken first to last; the range is
\* halved only to keep the evaluation shallow.
emaLoop(values, k, start) ==
    LET run[lo \in Nat, hi \in Nat, ema \in Int] ==
            IF lo > hi THEN << >>
            ELSE IF lo = hi THEN <<emaStep(values[lo], k, ema)>>
            ELSE LET mid  == (lo + hi) \div 2
                     left == run[lo, mid, ema]
                 IN  left \o run[mid + 1, hi, left[Len(left)]]
    IN  run[2, Len(values), start]

computeEMA(values, period) ==
    IF Len(values) = 0 THEN 0
    ELSE IF Len(values) = 1 THEN values[1]
    ELSE LET emas == emaLoop(values, smoothing(period), values[1])
         IN  emas[Len(emas)]

MACD_FAST   == 120
MACD_SLOW   == 260
MACD_SIGNAL == 90

NoMacd == [macd |-> 0, signal |-> 0, histogram |-> 0]

\* computeMACD(history): the function has the one parameter, so that the
\* fast, slow and signal periods processTick passes to it are dropped
computeMACD(h) ==
    IF Len(h) < MACD_SLOW THEN NoMacd
    ELSE LET ema12      == emaLoop(h, smoothing(MACD_FAST), h[1])
             ema26      == emaLoop(h, smoothing(MACD_SLOW), h[1])
             macdSeries == [i \in 1..(Len(h) - 1) |-> ema12[i] - ema26[i]]
             signal     == computeEMA(macdSeries, MACD_SIGNAL)
             line       == macdSeries[Len(macdSeries)]
         IN  [macd |-> line, signal |-> signal, histogram |-> line - signal]

MIN_CROSSOVER_SAMPLES == 20

\* Math.min(period, history.length) of the short-history branch
effectivePeriod_asGiven(period, len) == period
effectivePeriod(period, len) == Min(period, len)

\* clamp((shortEma - longEma) / price * 100, -1, 1)
normalized(shortEma, longEma, latest) ==
    IF latest = 0 THEN 0
    ELSE clamp(fxDiv(shortEma - longEma, latest) * 100, -fx(1), fx(1))

computeEMACrossover(h, short, long) ==
    IF Len(h) < long
    THEN IF Len(h) < MIN_CROSSOVER_SAMPLES THEN 0
         ELSE normalized(computeEMA(h, effectivePeriod(short, Len(h))),
                         computeEMA(h, effectivePeriod(long, Len(h))),
                         h[Len(h)])
    ELSE normalized(computeEMA(h, short), computeEMA(h, long), h[Len(h)])

IdleInd == macd = NoMacd /\ macroTrend = 0

IdleRsi == rHistory = << >> /\ rPeriod = 1 /\ rResult = [done |-> FALSE, value |-> whole(0)]

(***************************************************************************)
(* Harness for aggregateCandles: the inputs are drawn in Init.             *)
(***************************************************************************)
SeqsUpTo(S, n) == UNION {[1..m -> S] : m \in 0..n}

IdleAgg    == aHistory = << >> /\ aK = 1 /\ aResult = [done |-> FALSE, candles |-> << >>]
NoDetectResult == [done |-> FALSE, candles |-> << >>, patterns |-> << >>,
                   matched |-> << >>]
IdleDetect == dShapes = << >> /\ dResult = NoDetectResult
IdleStore  == feed = "off" /\ InitialState

InitAgg ==
    /\ aHistory \in SeqsUpTo(AggPrices, MaxAggLen)
    /\ aK \in 1..MaxAggK
    /\ aResult = [done |-> FALSE, candles |-> << >>]
    /\ IdleDetect
    /\ IdleStore
    /\ IdleProv
    /\ IdleOrch
    /\ IdleSearch
    /\ IdlePeriods
    /\ IdleRsi
    /\ IdleInd

Aggregate ==
    /\ ~aResult.done
    /\ aResult' = [done |-> TRUE, candles |-> aggregateCandles(aHistory, aK)]
    /\ UNCHANGED <<aHistory, aK, exceptAgg>>

NextAgg == Aggregate

SpecAgg == InitAgg /\ [][NextAgg]_vars

(***************************************************************************)
(* Harness for computeRSI: the inputs are drawn in Init.  The store calls  *)
(* it with periods of 20 and more; the harness uses short periods so that  *)
(* histories shorter and longer than period + 1 are both drawn.            *)
(***************************************************************************)
MaxRsiLen    == 5
MaxRsiPeriod == 3
RsiPrices    == 1..4

InitRsi ==
    /\ rHistory \in SeqsUpTo(RsiPrices, MaxRsiLen)
    /\ rPeriod \in 1..MaxRsiPeriod
    /\ rResult = [done |-> FALSE, value |-> whole(0)]
    /\ IdleAgg /\ IdleDetect /\ IdleStore /\ IdleProv /\ IdleOrch /\ IdleSearch
    /\ IdlePeriods /\ IdleInd

ComputeRsi ==
    /\ ~rResult.done
    /\ rResult' = [done |-> TRUE, value |-> computeRSI(rHistory, rPeriod)]
    /\ UNCHANGED <<rHistory, rPeriod, exceptRsi>>

NextRsi == ComputeRsi

SpecRsi == InitRsi /\ [][NextRsi]_vars

(***************************************************************************)
(* Harness for detectPatterns: a history of whole candle windows, each     *)
(* window given by its open, the price of its 48 middle ticks, its close.  *)
(***************************************************************************)
Shapes == ShapePrices \X ShapePrices \X ShapePrices

\* The latest candle also has shapes whose upper or lower wick is more than
\* twice the body.
LastShapePrices == ShapePrices \cup {2, 5}
LastShapes == LastShapePrices \X LastShapePrices \X LastShapePrices

WindowOf(shape) ==
    [i \in 1..TICKS_PER_CANDLE |->
        IF i = 1 THEN shape[1]
        ELSE IF i = TICKS_PER_CANDLE THEN shape[3]
        ELSE shape[2]]

RECURSIVE HistoryOf(_)
HistoryOf(shapes) ==
    IF shapes = << >> THEN << >>
    ELSE WindowOf(Head(shapes)) \o HistoryOf(Tail(shapes))

\* detectPatterns reads the last three candles only: the windows before them
\* are flat, the last three are free.
FlatShape == <<1, 1, 1>>

InitDetect ==
    /\ \E m \in 1..MaxShapes :
          \E free \in [1..(Min(m, 3) - 1) -> Shapes], latest \in LastShapes :
              dShapes = [i \in 1..m |->
                            IF i <= m - 3 THEN FlatShape
                            ELSE IF i = m THEN latest
                            ELSE free[i - Max(0, m - 3)]]
    /\ dResult = NoDetectResult
    /\ IdleAgg
    /\ IdleStore
    /\ IdleProv
    /\ IdleOrch
    /\ IdleSearch
    /\ IdlePeriods
    /\ IdleRsi
    /\ IdleInd

Detect ==
    /\ ~dResult.done
    /\ dResult' = [done |-> TRUE, matched |-> matchedOf(HistoryOf(dShapes))]
                   @@ detectPatterns(HistoryOf(dShapes))
    /\ UNCHANGED <<dShapes, exceptDetect>>

NextDetect == Detect

SpecDetect == InitDetect /\ [][NextDetect]_vars

(***************************************************************************)
(* The stock store fed with ticks.                                         *)
(***************************************************************************)
InitStore ==
    /\ feed \in {"free", "ramp"}
    /\ InitialState
    /\ IdleAgg
    /\ IdleDetect
    /\ IdleProv
    /\ IdleOrch
    /\ IdleSearch
    /\ IdlePeriods
    /\ IdleRsi
    /\ IdleInd

NextStore ==
    \/ (TickFree /\ UNCHANGED exceptStore)
    \/ (TickRamp /\ UNCHANGED exceptStore)
    \/ (ResetStore /\ UNCHANGED exceptStore)

SpecStore == InitStore /\ [][NextStore]_vars

(***************************************************************************)
(* Harness for the providers: one instance of any transport, driven by the *)
(* store's calls and by the network and timer events of its transport.     *)
(***************************************************************************)
InitProv ==
    /\ kind \in Kinds
    /\ phase = "new"
    /\ calls = 0
    /\ this = NewInstance
    /\ status = "disconnected"
    /\ socks = EmptyBag
    /\ tasks = EmptyBag
    /\ timers = EmptyBag
    /\ step = NoStep
    /\ drops = 0
    /\ errSeen = FALSE
    /\ rateLimited = FALSE
    /\ authenticated = FALSE
    /\ IdleAgg /\ IdleDetect /\ IdleStore /\ IdleOrch /\ IdleSearch
    /\ IdlePeriods
    /\ IdleRsi
    /\ IdleInd

NextProv ==
    \/ Connect /\ UNCHANGED exceptProv
    \/ ChangeSymbol /\ UNCHANGED exceptProv
    \/ Disconnect /\ UNCHANGED exceptProv
    \/ DisconnectAgain /\ UNCHANGED exceptProv
    \/ SimStep /\ UNCHANGED exceptProv
    \/ FhOnOpen /\ UNCHANGED exceptProv
    \/ FhOnTrade /\ UNCHANGED exceptProv
    \/ FhOnErrorMessage /\ UNCHANGED exceptProv
    \/ FhOnError /\ UNCHANGED exceptProv
    \/ FhOnClose /\ UNCHANGED exceptProv
    \/ FhReconnectFire /\ UNCHANGED exceptProv
    \/ AvFetchDone /\ UNCHANGED exceptProv
    \/ AvJsonDone /\ UNCHANGED exceptProv
    \/ AvPollTimerFire /\ UNCHANGED exceptProv
    \/ PgOnOpen /\ UNCHANGED exceptProv
    \/ PgOnAuthSuccess /\ UNCHANGED exceptProv
    \/ PgOnAuthFailed /\ UNCHANGED exceptProv
    \/ PgOnTrade /\ UNCHANGED exceptProv
    \/ PgOnError /\ UNCHANGED exceptProv
    \/ PgOnClose /\ UNCHANGED exceptProv
    \/ PgReconnectFire /\ UNCHANGED exceptProv
    \/ PgFetchDone /\ UNCHANGED exceptProv
    \/ PgJsonDone /\ UNCHANGED exceptProv
    \/ PgPollTimerFire /\ UNCHANGED exceptProv
    \/ IbAuthDone /\ UNCHANGED exceptProv
    \/ IbAuthJsonDone /\ UNCHANGED exceptProv
    \/ IbAccountsDone /\ UNCHANGED exceptProv
    \/ IbReauthDone /\ UNCHANGED exceptProv
    \/ IbResolveDone /\ UNCHANGED exceptProv
    \/ IbResolveJsonDone /\ UNCHANGED exceptProv
    \/ IbSnapDone /\ UNCHANGED exceptProv
    \/ IbSnapJsonDone /\ UNCHANGED exceptProv
    \/ IbPollTimerFire /\ UNCHANGED exceptProv
    \/ IbTickleFire /\ UNCHANGED exceptProv
    \/ PushDrained /\ UNCHANGED exceptProv

SpecProv == InitProv /\ [][NextProv]_vars

(***************************************************************************)
(* A SimulatorProvider whose changeSymbol is called in any phase of the    *)
(* instance's life, as the IMarketDataProvider interface allows.           *)
(***************************************************************************)
InitSim ==
    /\ InitProv
    /\ kind = "simulator"

NextSim ==
    \/ Connect /\ UNCHANGED exceptProv
    \/ ChangeSymbol /\ UNCHANGED exceptProv
    \/ SimChangeSymbolIdle /\ UNCHANGED exceptProv
    \/ Disconnect /\ UNCHANGED exceptProv
    \/ DisconnectAgain /\ UNCHANGED exceptProv
    \/ SimStep /\ UNCHANGED exceptProv

SpecSim == InitSim /\ [][NextSim]_vars

(***************************************************************************)
(* processTick with the indicators it publishes, under periods the         *)
(* settings allow.  The prices climb a step every StepTicks ticks and fall *)
(* back after ten steps.  The specifications of the candles and of the     *)
(* session follow processTick without these two results.                   *)
(***************************************************************************)
MaxIndTicks == 520
StepTicks   == 25

IndPrice(n) == 5 + ((n \div StepTicks) % 10)

\* setPeriod(key, value), applied to the defaults
withPeriods(changes) ==
    [k \in PeriodKeys |-> IF k \in DOMAIN changes THEN num(changes[k])
                          ELSE defaultPeriods[k]]

IndPeriods ==
    { defaultPeriods,
      withPeriods([macdSlow |-> 50]),
      withPeriods([macdFast |-> 20, macdSlow |-> 300]),
      withPeriods([emaShort |-> 20, emaLong |-> 100]),
      withPeriods([emaShort |-> 25, emaLong |-> 100]),
      withPeriods([emaLong |-> 100]) }

\* p.macdSlow and the like: a period as processTick reads it
configured(key) == periods[key] \div 2

exceptInd == <<varsAgg, varsDetect, varsProv, varsOrch, varsSearch,
               varsPeriods, varsRsi>>

InitInd ==
    /\ feed = "steps"
    /\ InitialState
    /\ periods \in IndPeriods
    /\ customPresets = << >>
    /\ nPeriodCalls = 0
    /\ periodCall = NoPeriodCall
    /\ IdleAgg /\ IdleDetect /\ IdleProv /\ IdleOrch /\ IdleSearch
    /\ IdleRsi /\ IdleInd

\* processTick(tick): the session, the history and the candles, then
\* macdResult = computeMACD(history, p.macdFast, p.macdSlow, p.macdSignal)
\* and macroTrend = computeEMACrossover(history, p.emaShort, p.emaLong)
TickInd ==
    /\ feed = "steps"
    /\ totalTicks < MaxIndTicks
    /\ processTick(IndPrice(totalTicks + 1))
    /\ macd' = computeMACD(numbers(history'))
    /\ macroTrend' = computeEMACrossover(numbers(history'),
                                         configured("emaShort"),
                                         configured("emaLong"))
    /\ UNCHANGED <<feed, exceptInd>>

NextInd == TickInd

SpecInd == InitInd /\ [][NextInd]_vars

\* C37: the MACD processTick publishes is all-zero exactly while the
\* history is shorter than the configured slow period periods.macdSlow.
C37_MacdZeroBelowConfiguredSlow ==
    totalTicks > 0 =>
        (macd = NoMacd <=> Len(history) < configured("macdSlow"))

\* C38, as stated: the EMA crossover is in [-1, 1], is 0 for fewer than 20
\* samples, and is 0 for every history of at least 20 samples that is
\* shorter than the short period.
C38_ZeroBelowShortPeriod ==
    /\ macroTrend \in (-fx(1))..fx(1)
    /\ Len(history) < MIN_CROSSOVER_SAMPLES => macroTrend = 0
    /\ (/\ Len(history) >= MIN_CROSSOVER_SAMPLES
        /\ Len(history) < configured("emaShort")) => macroTrend = 0

\* C38, amended: the EMA crossover is in [-1, 1], is 0 for fewer than 20
\* samples, and is 0 for every history of at least 20 samples that is
\* shorter than the long period and not longer than the short period, where
\* both EMAs have the history's length as their period.
C38_ZeroWhileWindowsCoincide ==
    /\ macroTrend \in (-fx(1))..fx(1)
    /\ Len(history) < MIN_CROSSOVER_SAMPLES => macroTrend = 0
    /\ (/\ Len(history) >= MIN_CROSSOVER_SAMPLES
        /\ Len(history) < configured("emaLong")
        /\ Len(history) <= configured("emaShort")) => macroTrend = 0

\* thirty ticks that climbed a step, under the default periods: the two EMAs
\* of the moving prices cancel
C38_Witness ==
    /\ Len(history) = 30
    /\ history[1] < history[30]
    /\ periods = defaultPeriods
    /\ macroTrend = 0

(***************************************************************************)
(* The stock store driving a live FinnhubProvider: startProvider,          *)
(* setSymbol and stopProvider call the instance, and the instance's onTick *)
(* is (tick) => get().processTick(tick).  A tick of symbol A carries the   *)
(* price 1 and a tick of B the price 2, so that a price in the history     *)
(* tells which symbol's tick delivered it.                                 *)
(***************************************************************************)
MaxLiveTicks == 3

PriceOf(sym) == IF sym = "A" THEN 1 ELSE 2

exceptLive == <<varsAgg, varsDetect, settings, provider, instances, varsSearch,
                varsPeriods, varsRsi, varsInd>>

\* set({ ...INITIAL_STATE })
LiveReset ==
    IF totalTicks > 0
    THEN ResetStore
    ELSE /\ wiped' = NothingWiped
         /\ UNCHANGED <<feed, history, totalTicks, candles, lastPattern,
                        lastPatternCandleCount, price, previousPrice, open,
                        high, low, change, arrived, detectRuns, lastDetected>>

\* onTick: (tick) => get().processTick(tick), for the ticks of the step
LiveDelivers ==
    LET ts == SelectSeq(step'.cbs, LAMBDA c : c.cb = "tick")
    IN  IF ts = << >>
        THEN UNCHANGED varsStore
        ELSE /\ totalTicks < MaxLiveTicks
             /\ processTick(PriceOf(ts[1].v))
             /\ UNCHANGED feed

LiveStartProvider ==
    /\ Connect
    /\ symbol' = this'.symbol
    /\ LiveReset

LiveSetSymbol ==
    /\ ChangeSymbol
    /\ symbol' = this'.symbol
    /\ LiveReset

LiveStopProvider ==
    /\ Disconnect
    /\ UNCHANGED <<varsStore, symbol>>

LiveEvent(A) ==
    /\ A
    /\ LiveDelivers
    /\ UNCHANGED symbol

InitLive ==
    /\ InitProv
    /\ kind = "finnhub"

NextLive ==
    \/ LiveStartProvider /\ UNCHANGED exceptLive
    \/ LiveSetSymbol /\ UNCHANGED exceptLive
    \/ LiveStopProvider /\ UNCHANGED exceptLive
    \/ LiveEvent(FhOnOpen) /\ UNCHANGED exceptLive
    \/ LiveEvent(FhOnTrade) /\ UNCHANGED exceptLive
    \/ LiveEvent(FhOnErrorMessage) /\ UNCHANGED exceptLive
    \/ LiveEvent(FhOnError) /\ UNCHANGED exceptLive
    \/ LiveEvent(FhOnClose) /\ UNCHANGED exceptLive
    \/ LiveEvent(FhReconnectFire) /\ UNCHANGED exceptLive
    \/ LiveEvent(PushDrained) /\ UNCHANGED exceptLive

SpecLive == InitLive /\ [][NextLive]_vars

(***************************************************************************)
(* Harness for the orchestration: the store's calls and the settings'      *)
(* setters in any order.  No tick is fed, so the store's tick state stays  *)
(* at INITIAL_STATE, which startProvider and setSymbol write.              *)
(***************************************************************************)
InitOrch ==
    /\ IdleOrch
    /\ IdleAgg /\ IdleDetect /\ IdleStore /\ IdleProv /\ IdleSearch
    /\ IdlePeriods
    /\ IdleRsi
    /\ IdleInd

NextOrch ==
    \/ StartProvider /\ UNCHANGED exceptOrch
    \/ StopProvider /\ UNCHANGED exceptOrch
    \/ SetSymbol /\ UNCHANGED exceptOrch
    \/ SetDataProvider /\ UNCHANGED exceptOrch
    \/ SetKey /\ UNCHANGED exceptOrch

SpecOrch == InitOrch /\ [][NextOrch]_vars

(***************************************************************************)
(* Harness for the ticker search: calls, their completions and the clock.  *)
(***************************************************************************)
InitSearch ==
    /\ IdleSearch
    /\ IdlePeriods
    /\ IdleRsi
    /\ IdleInd
    /\ IdleAgg /\ IdleDetect /\ IdleStore /\ IdleProv /\ IdleOrch

NextSearch ==
    \/ Search /\ UNCHANGED exceptSearch
    \/ Join /\ UNCHANGED exceptSearch
    \/ Advance /\ UNCHANGED exceptSearch

SpecSearch == InitSearch /\ [][NextSearch]_vars

(***************************************************************************)
(* Harness for the indicator periods: any sequence of the five calls.      *)
(***************************************************************************)
InitPeriods ==
    /\ IdlePeriods
    /\ IdleRsi
    /\ IdleInd
    /\ IdleAgg /\ IdleDetect /\ IdleStore /\ IdleProv /\ IdleOrch
    /\ IdleSearch

NextPeriods ==
    \/ SetPeriod /\ UNCHANGED exceptPeriods
    \/ ResetPeriods /\ UNCHANGED exceptPeriods
    \/ ResetDefaults /\ UNCHANGED exceptPeriods
    \/ SavePreset /\ UNCHANGED exceptPeriods
    \/ LoadPreset /\ UNCHANGED exceptPeriods

SpecPeriods == InitPeriods /\ [][NextPeriods]_vars

(***************************************************************************)
(* Claims about the store and the candle detector                          *)
(***************************************************************************)

\* C5: after N processTick calls since the last reset the history holds
\* exactly the last min(N, 1000) tick prices in arrival order, and
\* totalTicks = N, also once the history is capped.
C5_HistoryIsLastThousand ==
    LET N == Len(arrived)
        kept == Min(N, 1000)
    IN  /\ totalTicks = N
        /\ Len(history) = kept
        /\ \A i \in 1..kept : history[i] = arrived[N - kept + i]

C5_Witness ==
    /\ totalTicks > HISTORY_SIZE + 50
    /\ Len(history) = HISTORY_SIZE
    /\ history[1] # arrived[1]

\* C6: a processTick call writes lastPattern / lastPatternCandleCount only at a
\* candle boundary, and only when no pattern has been accepted since the reset
\* (count 0) or the completed-candle count is at least 2 above the count of the
\* previous acceptance; the new count is the current candle count.  Hence a
\* qualifying pattern one candle after an accepted one is not accepted.
C6_CooldownTwoCandles ==
    /\ [][ ( /\ totalTicks' = totalTicks + 1
             /\ <<lastPattern, lastPatternCandleCount>>' #
                    <<lastPattern, lastPatternCandleCount>> )
           => LET n == totalTicks' \div 50 IN
              /\ totalTicks' % 50 = 0
              /\ lastPatternCandleCount = 0 \/ n - lastPatternCandleCount >= 2
              /\ lastPatternCandleCount' = n
              /\ lastPattern' # NoPattern ]_vars
    /\ [](lastDetected.hit /\ lastDetected.before # 0
            /\ lastDetected.at = lastDetected.before + 1
          => ~lastDetected.replaced)

\* Two qualifying patterns on consecutive candles: the first was accepted, the
\* second has just been suppressed.
C6_Witness ==
    /\ lastDetected.hit
    /\ ~lastDetected.replaced
    /\ lastDetected.before # 0
    /\ lastDetected.at = lastDetected.before + 1
    /\ lastPatternCandleCount = lastDetected.before
    /\ totalTicks = 50 * lastDetected.at

\* C7: detectPatterns runs, and the candle array is refreshed, exactly on the
\* ticks on which floor(totalTicks / 50) grows; every other tick leaves
\* candles, lastPattern and lastPatternCandleCount as they were.
C7_DetectionOnlyAtBoundary ==
    /\ [](detectRuns = totalTicks \div 50)
    /\ [][ totalTicks' = totalTicks + 1
           => IF totalTicks' % 50 = 0
              THEN candles' = aggregateCandles(history', 50)
              ELSE UNCHANGED <<candles, lastPattern, lastPatternCandleCount>> ]_vars

C7_Witness ==
    /\ totalTicks = 151
    /\ detectRuns = 3
    /\ Len(candles) = 3
    /\ lastPattern # NoPattern

\* C8: detectPatterns returns at most one pattern, none exactly when no
\* detector matches the latest candles, and otherwise one of the matching
\* patterns of the highest matching class (stars 3, engulfings 2, others 1).
C8_Class(t) ==
    IF t \in {"morningStar", "eveningStar"} THEN 3
    ELSE IF t \in {"bullishEngulfing", "bearishEngulfing"} THEN 2
    ELSE 1

C8_Matching(cs) ==
    LET n == Len(cs) IN
    {t \in {"morningStar"} : n >= 3 /\ Positive(detectMorningStar(cs[n-2], cs[n-1], cs[n]))}
    \cup {t \in {"eveningStar"} : n >= 3 /\ Positive(detectEveningStar(cs[n-2], cs[n-1], cs[n]))}
    \cup {t \in {"bullishEngulfing"} : n >= 2 /\ Positive(detectBullishEngulfing(cs[n-1], cs[n]))}
    \cup {t \in {"bearishEngulfing"} : n >= 2 /\ Positive(detectBearishEngulfing(cs[n-1], cs[n]))}
    \cup {t \in {"doji"} : Positive(detectDoji(cs[n]))}
    \cup {t \in {"hammer"} : Positive(detectHammer(cs[n]))}
    \cup {t \in {"shootingStar"} : Positive(detectShootingStar(cs[n]))}

C8_HighestPriorityOnly ==
    dResult.done =>
        LET M  == C8_Matching(dResult.candles)
            ps == dResult.patterns
        IN  /\ Len(ps) <= 1
            /\ (ps = << >>) <=> (M = {})
            /\ ps # << >> =>
                 /\ ps[1].type \in M
                 /\ \A t \in M : C8_Class(t) <= C8_Class(ps[1].type)

\* A star is returned although an engulfing and a one-candle pattern match too.
C8_Witness ==
    /\ dResult.done
    /\ dResult.patterns # << >>
    /\ C8_Class(dResult.patterns[1].type) = 3
    /\ \E t \in C8_Matching(dResult.candles) : C8_Class(t) = 2
    /\ \E t \in C8_Matching(dResult.candles) : C8_Class(t) = 1

\* C33: every pattern detectPatterns returns carries the sentiment fixed for
\* its type, a strength in (0, 1], and the index of the last complete
\* candle as its candleIndex.
C33_Sentiment(type) ==
    IF type = "doji" THEN "neutral"
    ELSE IF type \in {"hammer", "bullishEngulfing", "morningStar"} THEN "bullish"
    ELSE "bearish"

C33_WellFormed(p, cs) ==
    /\ p.type \in {"doji", "hammer", "shootingStar", "bullishEngulfing",
                   "bearishEngulfing", "morningStar", "eveningStar"}
    /\ p.sentiment = C33_Sentiment(p.type)
    /\ p.strength[2] > 0
    /\ 0 < p.strength[1]
    /\ p.strength[1] <= p.strength[2]
    /\ p.candleIndex = Len(cs) - 1

C33_PatternsWellFormed ==
    dResult.done =>
        /\ \A i \in 1..Len(dResult.patterns) :
              C33_WellFormed(dResult.patterns[i], dResult.candles)
        /\ \A i \in 1..Len(dResult.matched) :
              C33_WellFormed(dResult.matched[i], dResult.candles)

\* a star of a strength strictly between 0 and 1 on the third candle
C33_Witness ==
    /\ dResult.done
    /\ Len(dResult.candles) = 3
    /\ dResult.patterns # << >>
    /\ dResult.patterns[1].type = "morningStar"
    /\ dResult.patterns[1].strength[1] < dResult.patterns[1].strength[2]
    /\ dResult.patterns[1].candleIndex = 2

\* C34: a match of detectHammer, detectShootingStar, detectBullishEngulfing
\* or detectBearishEngulfing has strength exactly 1.
C34_StrengthIsOne ==
    dResult.done =>
        \A i \in 1..Len(dResult.matched) :
            dResult.matched[i].type \in {"hammer", "shootingStar", "bullishEngulfing",
                                         "bearishEngulfing"}
                => dResult.matched[i].strength = One

\* a hammer whose lower wick is more than twice its body: the ratio is
\* above 1 and the cap acts
C34_Witness ==
    /\ dResult.done
    /\ \E i \in 1..Len(dResult.matched) : dResult.matched[i].type = "hammer"
    /\ LET cs == dResult.candles
       IN  lowerWick(cs[Len(cs)]) > 2 * body(cs[Len(cs)])

\* C9: aggregateCandles(history, k) returns floor(L / k) candles; candle i
\* summarises history[i*k .. i*k+k-1]: open the first element, close the last,
\* high the maximum, low the minimum, tickCount k, startIndex i*k.
C9_AggregateWindows ==
    aResult.done =>
        LET cs == aResult.candles
            k  == aK
        IN  /\ Len(cs) = Len(aHistory) \div k
            /\ \A i \in 0..(Len(cs) - 1) :
                 LET w == {aHistory[j] : j \in (i * k + 1)..(i * k + k)}
                     c == cs[i + 1]
                 IN  /\ c.open = aHistory[i * k + 1]
                     /\ c.close = aHistory[i * k + k]
                     /\ c.high \in w /\ \A x \in w : x <= c.high
                     /\ c.low \in w /\ \A x \in w : c.low <= x
                     /\ c.tickCount = k
                     /\ c.startIndex = i * k

\* Two candles and a dropped partial window, with a high and a low inside the
\* window that are neither its open nor its close.
C9_Witness ==
    /\ aResult.done
    /\ Len(aResult.candles) = 2
    /\ Len(aHistory) % aK # 0
    /\ aResult.candles[1].high > Max(aResult.candles[1].open, aResult.candles[1].close)
    /\ aResult.candles[2].low < Min(aResult.candles[2].open, aResult.candles[2].close)

\* C32: at every candle boundary (totalTicks = 50 * m, m >= 1) the store's
\* candles are min(m, 20) many and the j-th of them summarises the ticks
\* of one global window of 50: the last one the ticks 50*(m-1)+1 .. 50*m,
\* also once the history is capped at 1000.
C32_CandlesFollowGlobalWindows ==
    (totalTicks > 0 /\ totalTicks % TICKS_PER_CANDLE = 0) =>
        LET m == totalTicks \div TICKS_PER_CANDLE
            n == Min(m, HISTORY_SIZE \div TICKS_PER_CANDLE)
        IN  /\ Len(candles) = n
            /\ \A j \in 1..n :
                 LET first == TICKS_PER_CANDLE * (m - n + j - 1) + 1
                     last_ == TICKS_PER_CANDLE * (m - n + j)
                     w     == {arrived[i] : i \in first..last_}
                     c     == candles[j]
                 IN  /\ c.open = arrived[first]
                     /\ c.close = arrived[last_]
                     /\ c.high \in w /\ \A x \in w : x <= c.high
                     /\ c.low \in w /\ \A x \in w : c.low <= x

\* the boundary at tick 1050: the history lost its first 50 ticks
C32_Witness ==
    /\ totalTicks = HISTORY_SIZE + TICKS_PER_CANDLE
    /\ Len(candles) = 20
    /\ candles[1].open = arrived[TICKS_PER_CANDLE + 1]
    /\ candles[20].close = arrived[totalTicks]
    /\ arrived[1] # arrived[TICKS_PER_CANDLE + 1]

\* C39: after every processTick since the last reset, open is the first
\* tick's price, high and low are the largest and the smallest price of all
\* the ticks since the reset, low <= open <= high, low <= price <= high,
\* change = price - open, and previousPrice is the preceding tick's price
\* (the tick's own price on the first tick).
C39_SessionFollowsAllTicks ==
    totalTicks > 0 =>
        LET n == Len(arrived)
        IN  /\ n = totalTicks
            /\ price = arrived[n]
            /\ open = arrived[1]
            /\ \A i \in 1..n : low <= arrived[i] /\ arrived[i] <= high
            /\ \E i \in 1..n : arrived[i] = high
            /\ \E i \in 1..n : arrived[i] = low
            /\ low <= open /\ open <= high
            /\ low <= price /\ price <= high
            /\ change = price - open
            /\ previousPrice = IF n = 1 THEN price ELSE arrived[n - 1]

\* the session's open and low have left the capped history
C39_Witness ==
    /\ totalTicks > HISTORY_SIZE
    /\ open = arrived[1]
    /\ low = arrived[1]
    /\ low < history[1]
    /\ high = price
    /\ change = totalTicks - 1
    /\ previousPrice = price - 1

\* C27: the reset that startProvider and setSymbol make puts history,
\* totalTicks, candles, lastPattern, lastPatternCandleCount, the session's
\* open / high / low and the prices back to their initial values, whatever
\* the ticks of the previous symbol had built up.
C27_SwitchResetsStore ==
    [][totalTicks' < totalTicks =>
          /\ history' = << >>
          /\ totalTicks' = 0
          /\ candles' = << >>
          /\ lastPattern' = NoPattern
          /\ lastPatternCandleCount' = 0
          /\ open' = 0
          /\ high' = 0
          /\ low' = Infinity
          /\ price' = 0
          /\ previousPrice' = 0]_vars

\* A reset found a history, candles and an accepted pattern, and the first
\* tick after it has been processed.
C27_Witness ==
    /\ wiped.history
    /\ wiped.candles
    /\ wiped.pattern
    /\ totalTicks = 1
    /\ history = <<price>>
    /\ open = price
    /\ candles = << >>
    /\ lastPatternCandleCount = 0

(***************************************************************************)
(* Claims about the providers                                              *)
(***************************************************************************)

\* C1: on a polling transport, the response of a request that was in flight
\* when changeSymbol was called never results in a delivered tick.
C1_NoTickFromStaleRequest ==
    step.stale => ~Ticks(step.cbs)

\* C2: once disconnect() has returned, the instance invokes neither onTick
\* nor onStatusChange again (until connect() is called anew).
C2_SilentAfterDisconnect ==
    (phase = "stopped" /\ step.act \notin {"disconnect", "disconnectAgain"}) =>
        step.cbs = << >>

\* C3: on a push transport the k-th consecutive unintentional close since
\* connected was last reported schedules the reconnect min(1 s * 2^(k-1), 30 s)
\* later: the delays never decrease, stop at 30 s, and start at 1 s again
\* after a successful connection.
C3_BackoffSchedule ==
    (step.act = "sockClose" /\ step.sched # 0) =>
        /\ drops >= 1
        /\ step.sched = Min(BASE_RECONNECT * 2 ^ (drops - 1), MAX_RECONNECT)

C3_Witness ==
    /\ kind \in {"finnhub", "polygon"}
    /\ step.act = "sockClose"
    /\ drops = MaxDrops
    /\ step.sched = MAX_RECONNECT

\* C4: on a push transport, after disconnect() no reconnect timer is
\* pending, no later socket close event schedules one, and no WebSocket is
\* opening or open.
C4_NoReconnectAfterDisconnect ==
    phase = "stopped" =>
        /\ TimersOf("reconnect") = {}
        /\ step.sched = 0
        /\ \A x \in BagToSet(socks) : x.st \notin {"connecting", "open"}

C4_Witness ==
    /\ kind \in {"finnhub", "polygon"}
    /\ phase = "stopped"
    /\ step.act = "sockClose"
    /\ errSeen

\* C10: once error has been reported, no other status is reported until
\* connect() or disconnect() is called.
C10_ErrorIsSticky ==
    ~step.leftError

\* C11: once the Polygon transport has received auth_failed it stays on REST
\* polling: no WebSocket is opening or open, no reconnect timer is pending or
\* scheduled (also when the rejected socket's close event fires), and every
\* tick comes from a REST poll.
C11_FallbackIsPermanent ==
    /\ [](this.fallbackToRest =>
            /\ TimersOf("reconnect") = {}
            /\ step.sched = 0
            /\ \A x \in BagToSet(socks) : x.st \notin {"connecting", "open"}
            /\ Ticks(step.cbs) => step.act = "pollDone")
    /\ [][this.fallbackToRest => this'.fallbackToRest]_vars

C11_Witness ==
    /\ kind = "polygon"
    /\ this.fallbackToRest
    /\ socks = EmptyBag
    /\ Ticks(step.cbs)

\* C12: after a rate-limit response and until a poll succeeds, Alpha Vantage
\* issues a poll only when a timer set for the 60 s backoff interval fires.
C12_NoEarlyPollAfterRateLimit ==
    (kind = "alphaVantage" /\ step.limited /\ step.polls > 0) =>
        step.wait >= AV_BACKOFF_INTERVAL

\* C13: the IBKR transport issues a symbol-resolution or snapshot request
\* only after an auth-status check has reported the session authenticated.
C13_NoRequestBeforeAuthenticated ==
    (kind = "interactiveBrokers" /\ step.polls > 0) => authenticated

\* C21: on the Polygon transport, once push authentication has failed and
\* a REST fallback poll fails too, the error is final: no poll timer is
\* pending and no poll request is in flight.
C21_FallbackFailureStopsPolling ==
    (/\ kind = "polygon"
     /\ phase = "live"
     /\ this.fallbackToRest
     /\ step.act \in {"fetchDone", "pollDone"}
     /\ Reports(step.cbs, "error")) =>
        /\ TimersOf("poll") = {}
        /\ TasksOf("pgFetch") = {}
        /\ TasksOf("pgJson") = {}

\* C22: while a provider is active, a step that reports error leaves a
\* retry under way: a request in flight, a timer pending, or a socket that
\* is open, opening or has its close event still to come.
C22_FailureSchedulesRetry ==
    (phase = "live" /\ Reports(step.cbs, "error")) =>
        \/ tasks # EmptyBag
        \/ timers # EmptyBag
        \/ \E x \in BagToSet(socks) : x.st # "closed"

\* C24: disconnect() on an instance that is already disconnected changes
\* none of its fields, timers, sockets or requests in flight, and the
\* status it reports is disconnected.
C24_DisconnectIsIdempotent ==
    [][step'.act = "disconnectAgain" =>
          /\ this' = this
          /\ timers' = timers
          /\ socks' = socks
          /\ tasks' = tasks
          /\ status' = "disconnected"
          /\ step'.cbs = <<[cb |-> "status", v |-> "disconnected"]>>]_vars

\* The gateway transport was disconnected a second time with a resolved
\* symbol in its cache.
C24_Witness ==
    /\ kind = "interactiveBrokers"
    /\ step.act = "disconnectAgain"
    /\ this.conidCache # {}
    /\ ~this.active
    /\ this.tickleTimer = "null"
    /\ timers = EmptyBag

\* The requests of a poll, from the symbol's resolution to the body of the
\* snapshot.
PollRequests == {"avFetch", "avJson", "pgFetch", "pgJson",
                 "ibResolve", "ibResolveJson", "ibSnap", "ibSnapJson"}

\* The part of a bag whose elements satisfy a test.
SubBagOf(B, Test(_)) ==
    [x \in {y \in BagToSet(B) : Test(y)} |-> CopiesIn(x, B)]

\* The poll chains under way: the pending poll timers and the poll requests
\* in flight, leaving out a request that a later changeSymbol superseded.
PollChains ==
    BagCardinality(SubBagOf(timers, LAMBDA x : x.k = "poll"))
    + BagCardinality(SubBagOf(tasks, LAMBDA x : x.k \in PollRequests /\ ~x.stale))

\* C26: a polling transport has at most one poll chain at any time.
C26_OnePollChain ==
    (kind \in {"alphaVantage", "polygon", "interactiveBrokers"} /\ phase = "live") =>
        PollChains <= 1

\* C28: on a push transport, whenever the socket this.ws names is open
\* (and, on Polygon, authenticated), the symbols subscribed on it are
\* exactly the provider's current symbol, whatever changeSymbol calls and
\* reconnects came before.
C28_SubscribedToCurrent ==
    kind \in {"finnhub", "polygon"} =>
        \A x \in BagToSet(socks) :
            (x.cur /\ x.st = "open" /\ (kind = "polygon" => x.auth = "ok")) =>
                x.subs = {this.symbol}

\* After a drop and a changeSymbol made while no socket was open, the
\* socket of the reconnect opens and is subscribed to the new symbol.
C28_Witness ==
    /\ kind = "finnhub"
    /\ step.act = "open"
    /\ calls = 1
    /\ this.symbol = "B"
    /\ this.reconnectTimer = "set"
    /\ \E x \in BagToSet(socks) : x.cur /\ x.st = "open" /\ x.subs = {"B"}

\* The symbol-resolution requests in flight for a symbol.
Resolving(ts, sym) ==
    CopiesIn([k |-> "ibResolve", sym |-> sym, stale |-> FALSE], ts)
    + CopiesIn([k |-> "ibResolve", sym |-> sym, stale |-> TRUE], ts)

\* C29: the gateway transport issues no resolution request for a symbol
\* whose id it has cached, and no step, changeSymbol and disconnect
\* included, takes a symbol out of the cache.
C29_ResolvedOnce ==
    [][/\ \A sym \in Symbols :
             Resolving(tasks', sym) > Resolving(tasks, sym) =>
                 sym \notin this.conidCache
       /\ this.conidCache \subseteq this'.conidCache]_vars

\* changeSymbol back to a resolved symbol polls it at once from the cache.
C29_Witness ==
    /\ kind = "interactiveBrokers"
    /\ step.act = "changeSymbol"
    /\ calls = 2
    /\ this.conidCache = {"A"}
    /\ this.currentConid = "A"
    /\ tasks = SetToBag({[k |-> "ibSnap", sym |-> "A", stale |-> FALSE]})

\* The keepalive timers pending.
Tickles(ts) == SubBagOf(ts, LAMBDA x : x.k = "tickle")

NormalInterval ==
    IF kind = "alphaVantage" THEN AV_POLL_INTERVAL
    ELSE IF kind = "polygon" THEN REST_POLL_INTERVAL
    ELSE IB_POLL_INTERVAL

PollTimerHeld(delays) ==
    \E t \in TimersOf("poll") : t.held /\ t.delay \in delays

C35_SimulatorTicksOnlyWhileConnected ==
    /\ step.act = "connect" =>
          step.cbs = << [cb |-> "status", v |-> "connecting"],
                        [cb |-> "status", v |-> "connected"] >>
    /\ Ticks(step.cbs) => phase = "live"
    /\ phase # "live" => TimersOf("sim") = {}
    /\ BagCardinality(timers) <= 1

\* C23: computeRSI returns 50 for a history of fewer than period + 1
\* samples; otherwise its result lies in [0, 100], is 100 when no step of
\* the history decreases and is 0 when every step decreases.
NoDecreasingStep(h) == \A i \in 1..(Len(h) - 1) : h[i + 1] >= h[i]
StrictlyDecreasing(h) == \A i \in 1..(Len(h) - 1) : h[i + 1] < h[i]

C23_RsiRange ==
    rResult.done =>
        IF Len(rHistory) < rPeriod + 1
        THEN rResult.value = whole(50)
        ELSE /\ atMost(whole(0), rResult.value)
             /\ atMost(rResult.value, whole(100))
             /\ NoDecreasingStep(rHistory) => rResult.value = whole(100)
             /\ StrictlyDecreasing(rHistory) => rResult.value = whole(0)

\* a strictly decreasing history long enough for the smoothing loop to run
C23_Witness ==
    /\ rResult.done
    /\ Len(rHistory) > rPeriod + 1
    /\ StrictlyDecreasing(rHistory)
    /\ rResult.value = whole(0)

\* C25: every price in the store's history was delivered by a tick of the
\* store's current symbol: a trade of the previous symbol that arrives
\* after setSymbol is neither appended nor counted.
C25_HistoryIsOfCurrentSymbol ==
    \A i \in 1..Len(history) : history[i] = PriceOf(symbol)

(***************************************************************************)
(* Claims about the orchestration                                          *)
(***************************************************************************)
Connected == {i \in 1..Len(instances) : instances[i].state = "connected"}

\* C14: after any sequence of startProvider, setSymbol and stopProvider
\* calls at most one instance is connected and not disconnected since, and
\* it is the one the store's provider field holds.
C14_OneActiveProvider ==
    /\ Cardinality(Connected) <= 1
    /\ Connected = IF provider = 0 THEN {} ELSE {provider}

C14_Witness ==
    /\ Len(instances) = MaxInstances
    /\ provider = MaxInstances
    /\ \A i \in 1..(MaxInstances - 1) : instances[i].state = "disconnected"

\* C19: createProvider builds the transport of the configured kind when
\* that kind is finnhub, alphaVantage or polygon and its key is non-empty,
\* and the simulator when the kind is simulator or its key is empty.
C19_TransportBySettings ==
    [][Len(instances') > Len(instances) =>
          LET st == settings'
              tr == instances'[Len(instances')].transport
          IN  /\ (st.dataProvider = "finnhub" /\ st.finnhubKey # "") => tr = "finnhub"
              /\ (st.dataProvider = "alphaVantage" /\ st.alphaVantageKey # "")
                     => tr = "alphaVantage"
              /\ (st.dataProvider = "polygon" /\ st.polygonKey # "") => tr = "polygon"
              /\ (st.dataProvider = "finnhub" /\ st.finnhubKey = "") => tr = "simulator"
              /\ (st.dataProvider = "alphaVantage" /\ st.alphaVantageKey = "")
                     => tr = "simulator"
              /\ (st.dataProvider = "polygon" /\ st.polygonKey = "") => tr = "simulator"
              /\ (st.dataProvider = "interactiveBrokers" /\ st.ibkrGatewayUrl = "")
                     => tr = "simulator"
              /\ st.dataProvider = "simulator" => tr = "simulator"]_vars

C19_Witness ==
    /\ \E i \in 1..Len(instances) : instances[i].transport = "polygon"
    /\ \E i \in 1..Len(instances) : instances[i].transport = "finnhub"
    /\ settings.dataProvider = "alphaVantage"
    /\ settings.alphaVantageKey = ""
    /\ provider # 0
    /\ instances[provider].transport = "simulator"

(***************************************************************************)
(* The ticker search.                                                      *)
(***************************************************************************)
\* The results as the set of their symbols.
SymbolsOf(rs) == {rs[i].symbol : i \in 1..Len(rs)}

\* The providers of a finished call whose search fulfilled with the symbol.
Suppliers(did, sym) ==
    {p \in did.keys : /\ did.outs[p].status = "fulfilled"
                      /\ \E i \in 1..Len(did.outs[p].value) :
                            did.outs[p].value[i] = sym}

\* The position of a provider in the order of the searches.
Rank(p) == CHOOSE i \in 1..Len(SearchOrder) : SearchOrder[i] = p

\* The step was a searchTickers call with a query that is not blank.
Asked == searched.act \in {"hit", "noKeys", "miss"}

\* C15: the cache is keyed by the trimmed, upper-cased query.  A call whose
\* key has an entry younger than CACHE_TTL returns the entry's results and
\* issues no provider request; a call whose key has an entry of CACHE_TTL or
\* older issues the requests of the configured providers again, and the
\* call that completes stores its results and the time under that key.
C15_CacheByNormalizedQuery ==
    /\ (Asked /\ searched.had /\ searched.age < CACHE_TTL) =>
          /\ searched.act = "hit"
          /\ searched.issued = {}
          /\ searched.returned = searched.cached
    /\ (Asked /\ searched.had /\ searched.age >= CACHE_TTL /\ searched.keys # {}) =>
          /\ searched.act = "miss"
          /\ searched.issued = searched.keys
    /\ searched.act = "join" =>
          LET key == toUpperCase(trim(searched.raw))
          IN  /\ key \in DOMAIN cache
              /\ cache[key] = [results |-> searched.returned, ts |-> clock]

\* A query typed with blanks around it is answered from a filled entry.
C15_Witness ==
    /\ searched.act = "hit"
    /\ searched.raw = <<" ", "A", " ">>
    /\ searched.cached # << >>
    /\ searched.age > 0
    /\ searched.keys # {}

\* C16: a call never rejects because a provider's search rejected: it
\* resolves with the results of the providers that fulfilled; and a call
\* that misses the cache issues one request to every configured provider.
C16_FailuresAreIsolated ==
    /\ searched.act = "join" =>
          /\ ~searched.rejected
          /\ SymbolsOf(searched.returned) =
                {sym \in {"X", "Y"} : Suppliers(searched, sym) # {}}
          /\ \A i \in 1..Len(searched.returned) :
                searched.returned[i].provider
                    \in Suppliers(searched, searched.returned[i].symbol)
    /\ searched.act = "miss" => searched.issued = searched.keys

\* One provider rejected, another fulfilled, and the call returned results.
C16_Witness ==
    /\ searched.act = "join"
    /\ \E p \in searched.keys : searched.outs[p].status = "rejected"
    /\ \E p \in searched.keys : searched.outs[p].status = "fulfilled"
    /\ searched.returned # << >>

\* C17: the results hold each symbol at most once, and the entry kept for a
\* symbol is that of the first provider, in the order Finnhub, Alpha
\* Vantage, Polygon, whose search fulfilled with it.
C17_FirstProviderWins ==
    searched.act = "join" =>
       /\ \A i, j \in 1..Len(searched.returned) :
             searched.returned[i].symbol = searched.returned[j].symbol => i = j
       /\ \A i \in 1..Len(searched.returned) :
             \A p \in Suppliers(searched, searched.returned[i].symbol) :
                Rank(searched.returned[i].provider) <= Rank(p)

\* Polygon and Finnhub both fulfilled with the symbol X.
C17_Witness ==
    /\ searched.act = "join"
    /\ {"finnhub", "polygon"} \subseteq Suppliers(searched, "X")
    /\ \E i \in 1..Len(searched.returned) :
          searched.returned[i] = [symbol |-> "X", provider |-> "finnhub"]

\* C18: a call with no configured credential returns the empty list and
\* issues no provider request, whatever the cache holds.
C18_NoKeysReturnsEmpty ==
    (searched.act \in {"empty", "hit", "noKeys", "miss"} /\ searched.keys = {}) =>
       /\ searched.returned = << >>
       /\ searched.issued = {}

\* C36: a search whose configured providers all reject or resolve with
\* nothing is cached as an empty result under the normalized query; a call
\* for a key with a fresh entry, empty or not, returns the entry and issues
\* no request; a call that finds no fresh entry and has no credential
\* leaves the cache as it is.
NothingFound(s) ==
    \A p \in s.keys : s.outs[p].status = "rejected" \/ s.outs[p].value = << >>

EmptyIsCachedAndServed ==
    /\ (searched.act = "join" /\ NothingFound(searched)) =>
          /\ searched.returned = << >>
          /\ toUpperCase(trim(searched.raw)) \in DOMAIN cache
          /\ cache[toUpperCase(trim(searched.raw))] = [results |-> << >>, ts |-> clock]
    /\ (Asked /\ searched.had /\ searched.age < CACHE_TTL) =>
          /\ searched.act = "hit"
          /\ searched.issued = {}
          /\ searched.returned = searched.cached

C36_EmptyResultIsCached ==
    /\ []EmptyIsCachedAndServed
    /\ [][searched'.act = "noKeys" => (cache' = cache /\ searches' = searches)]_vars

\* a repeat, with a credential configured, of a query whose providers had
\* all failed: answered with the empty entry, no request issued
C36_Witness ==
    /\ searched.act = "hit"
    /\ searched.had
    /\ searched.cached = << >>
    /\ searched.age > 0
    /\ searched.keys # {}
    /\ searched.issued = {}

(***************************************************************************)
(* The indicator periods.                                                  *)
(***************************************************************************)
\* C20: after any sequence of setPeriod, resetPeriods, resetDefaults,
\* savePreset and loadPreset, every period is an integer inside its range;
\* and setPeriod stores the low end of the range for a value under it and
\* the high end for a value over it.
C20_PeriodsStayInRange ==
    /\ \A k \in PeriodKeys :
          /\ isInteger(periods[k])
          /\ num(PERIOD_RANGES[k][1]) <= periods[k]
          /\ periods[k] <= num(PERIOD_RANGES[k][2])
    /\ periodCall.act = "setPeriod" =>
          LET lo == num(PERIOD_RANGES[periodCall.key][1])
              hi == num(PERIOD_RANGES[periodCall.key][2])
          IN  /\ periodCall.value < lo => periods[periodCall.key] = lo
              /\ periodCall.value > hi => periods[periodCall.key] = hi

\* A preset saved with a clamped period was loaded over the defaults.
C20_Witness ==
    /\ periodCall.act = "loadPreset"
    /\ periods.emaLong = num(1000)
    /\ \E i \in 1..Len(customPresets) :
          /\ customPresets[i].name = periodCall.name
          /\ customPresets[i].periods = periods

====
